---- MODULE Spec2Model ----
(***************************************************************************)
(* State-machine model of the STN serial test scripts: the byte stream     *)
(* readers, the marker searches and the baud-switch handshakes.            *)
(*                                                                         *)
(* Time is counted in ticks of one poll slice (READ_SLICE_SLEEP); the      *)
(* durations of the scripts are scaled to a few ticks.  A port is a FIFO   *)
(* of received bytes; the device holds the bursts of its answer and may    *)
(* deliver the next one between any two steps of the host.  Spec runs the  *)
(* sessions of the scripts; SpecReaders feeds the marker readers one       *)
(* response in every split into chunks.                                    *)
(***************************************************************************)
EXTENDS Integers, Sequences, FiniteSets, TLC

\* ------------------------------------------------------------------ bounds
\* Last tick of the clock: no sleep starts at or after it.
MaxTime == 20
\* sleep(delay) of a command with a non-zero delay, in ticks.
DelayTicks == 1
\* IDLE_GAP_SEC in ticks.
IdleGapTicks == 2
\* STSBR_PROMPT_TIMEOUT_SEC in ticks.
StsbrTimeoutTicks == 3
\* OK_WAIT_SEC, BANNER_WAIT_SEC and PROMPT_WAIT_SEC of STBR_def_tim.py in ticks.
OkWaitTicks == 1
BannerWaitTicks == 2
PromptWaitTicks == 3
\* STSBR_OLD_READ_SEC of STSBR_ATI_CR.py in ticks.
OldReadTicks == 1
\* TIMEOUT = 1 of the reopening scripts in ticks.
TimeoutTicks == 2
\* Longest response over the marker bytes, longest response in whole markers,
\* and most reads a response is split over unless it is read byte by byte.
MaxStream == 5
MaxTokens == 2
MaxChunks == 3

\* ------------------------------------------------------------- constants
\* Python's None, for a timestamp or an offset that was never set.
None == 0 - 1
STARTING_BAUD == 9600
BASE_DELAY == 1
STRSTNVM_DELAY == 3

\* ------------------------------------------------------------------ bytes
CR == "<CR>"
GT == ">"
SP == " "
OK == <<"O", "K">>

\* ---------------------------------------------------------------- helpers
Max(a, b) == IF a >= b THEN a ELSE b

Min(a, b) == IF a <= b THEN a ELSE b

IsPrefix(s, t) == Len(s) <= Len(t) /\ SubSeq(t, 1, Len(s)) = s

\* buf[i : i + len(pat)] == pat, i a zero-based offset.
MatchAt(buf, pat, i) ==
    /\ i >= 0
    /\ i + Len(pat) <= Len(buf)
    /\ \A j \in 1..Len(pat) : buf[i + j] = pat[j]

RECURSIVE FindFrom(_, _, _)
FindFrom(buf, pat, i) ==
    IF i + Len(pat) > Len(buf) THEN None
    ELSE IF MatchAt(buf, pat, i) THEN i
    ELSE FindFrom(buf, pat, i + 1)

RECURSIVE RFindFrom(_, _, _, _)
RFindFrom(buf, pat, i, lo) ==
    IF i < lo THEN None
    ELSE IF MatchAt(buf, pat, i) THEN i
    ELSE RFindFrom(buf, pat, i - 1, lo)

\* A search that reports the last occurrence instead of the first.
FindLast(buf, pat, start) == RFindFrom(buf, pat, Len(buf) - Len(pat), start)

\* bytes.find(pat, start): the lowest offset >= start of a complete
\* occurrence of pat in buf, or -1.
Find(buf, pat, start) == FindFrom(buf, pat, start)

\* pat in buf
Contains(buf, pat) == Find(buf, pat, 0) # None

\* ------------------------------------------------------------- text
Digits == <<"0", "1", "2", "3", "4", "5", "6", "7", "8", "9">>
LowerCase == <<"a", "b", "c", "d", "e", "f", "g", "h", "i", "j", "k", "l", "m",
               "n", "o", "p", "q", "r", "s", "t", "u", "v", "w", "x", "y", "z">>
UpperCase == <<"A", "B", "C", "D", "E", "F", "G", "H", "I", "J", "K", "L", "M",
               "N", "O", "P", "Q", "R", "S", "T", "U", "V", "W", "X", "Y", "Z">>

IndexIn(c, alphabet) ==
    IF \E i \in 1..Len(alphabet) : alphabet[i] = c
    THEN CHOOSE i \in 1..Len(alphabet) : alphabet[i] = c
    ELSE 0

\* str.upper()
Upper(s) ==
    [i \in 1..Len(s) |->
        IF IndexIn(s[i], LowerCase) # 0 THEN UpperCase[IndexIn(s[i], LowerCase)]
        ELSE s[i]]

IsSpace(c) == c \in {SP, CR, "<TAB>", "<LF>"}

RECURSIVE LStrip(_)
LStrip(s) == IF s # <<>> /\ IsSpace(Head(s)) THEN LStrip(Tail(s)) ELSE s

RECURSIVE RStrip(_)
RStrip(s) ==
    IF s # <<>> /\ IsSpace(s[Len(s)]) THEN RStrip(SubSeq(s, 1, Len(s) - 1)) ELSE s

\* str.strip()
Strip(s) == RStrip(LStrip(s))

\* str.startswith(prefix)
StartsWith(s, prefix) == IsPrefix(prefix, s)

\* str.endswith(suffix)
EndsWith(s, suffix) ==
    Len(suffix) <= Len(s) /\ SubSeq(s, Len(s) - Len(suffix) + 1, Len(s)) = suffix

\* str.split(): the maximal runs of non-whitespace characters, in order.
RECURSIVE SplitAcc(_, _, _)
SplitAcc(s, word, acc) ==
    IF s = <<>> THEN (IF word = <<>> THEN acc ELSE Append(acc, word))
    ELSE IF IsSpace(Head(s))
         THEN SplitAcc(Tail(s), <<>>, IF word = <<>> THEN acc ELSE Append(acc, word))
         ELSE SplitAcc(Tail(s), Append(word, Head(s)), acc)

Split(s) == SplitAcc(s, <<>>, <<>>)

\* str.isdigit() on ASCII text
IsDigit(s) == s # <<>> /\ \A i \in 1..Len(s) : IndexIn(s[i], Digits) # 0

RECURSIVE DigitsValue(_, _)
DigitsValue(s, acc) ==
    IF s = <<>> THEN acc
    ELSE DigitsValue(Tail(s), 10 * acc + (IndexIn(Head(s), Digits) - 1))

\* int(word) for a word of decimal digits; None stands for ValueError.
ToInt(word) == IF IsDigit(word) THEN DigitsValue(word, 0) ELSE None

\* parse_stsbr_baud(cmd)
parse_stsbr_baud(cmd) ==
    LET parts == Split(Strip(cmd))
    IN  IF Len(parts) >= 2 /\ Upper(parts[1]) = <<"S", "T", "S", "B", "R">>
        THEN ToInt(parts[2])
        ELSE None

\* int([x for x in cmd.split() if x.isdigit()][0]); None stands for IndexError.
FirstDigitWord(cmd) ==
    LET ws == SelectSeq(Split(cmd), IsDigit)
    IN  IF ws = <<>> THEN None ELSE DigitsValue(ws[1], 0)

\* TX_NEWLINE
TX_NEWLINE == <<CR>>

\* cmd + TX_NEWLINE, as every sender but two builds the bytes it writes
AppendNewline(text) == text \o TX_NEWLINE

\* if not cmd.endswith(TX_NEWLINE): cmd += TX_NEWLINE
EnsureNewline(text) == IF EndsWith(text, TX_NEWLINE) THEN text ELSE AppendNewline(text)

\* str(n) for n >= 0, as an f-string formats an int
RECURSIVE DecimalText(_)
DecimalText(n) ==
    IF n < 10 THEN <<Digits[n + 1]>>
    ELSE Append(DecimalText(n \div 10), Digits[(n % 10) + 1])

\* -------------------------------------------------------------- rendering
\* The grave accent, chr(0x60), which a string of this language cannot hold.
GRAVE == "<GRAVE>"

\* chr(x) for 0x21 <= x <= 0x7E, in order.
Printable ==
    << "!", "\"", "#", "$", "%", "&", "'", "(", ")", "*", "+", ",", "-", ".", "/", "0",
       "1", "2", "3", "4", "5", "6", "7", "8", "9", ":", ";", "<", "=", ">", "?", "@",
       "A", "B", "C", "D", "E", "F", "G", "H", "I", "J", "K", "L", "M", "N", "O", "P",
       "Q", "R", "S", "T", "U", "V", "W", "X", "Y", "Z", "[", "\\", "]", "^", "_", GRAVE,
       "a", "b", "c", "d", "e", "f", "g", "h", "i", "j", "k", "l", "m", "n", "o", "p",
       "q", "r", "s", "t", "u", "v", "w", "x", "y", "z", "{", "|", "}", "~" >>

HexDigits == <<"0", "1", "2", "3", "4", "5", "6", "7", "8", "9", "A", "B", "C", "D", "E", "F">>

\* f"{x:02X}"
Hex2(x) == << HexDigits[(x \div 16) + 1], HexDigits[(x % 16) + 1] >>

\* The character the renderers print for a space.
MIDDOT == "<MIDDOT>"

\* The if-chain of make_visible and of visible_bytes of STPX, ATD_delay and
\* ATWS_delay, for one byte.
VisiblePiece(x) ==
    IF x = 32 THEN <<MIDDOT>>
    ELSE IF x = 13 THEN <<"<", "C", "R", ">">>
    ELSE IF x = 10 THEN <<"<", "L", "F", ">", "\n">>
    ELSE IF x = 9 THEN <<"<", "T", "A", "B", ">">>
    ELSE IF 33 <= x /\ x <= 126 THEN <<Printable[x - 32]>>
    ELSE <<"\\", "x">> \o Hex2(x)

\* The if-chain of visible_bytes of STRSTNVM_delay, for one byte.
VisiblePiece_STRSTNVM(x) ==
    IF x = 32 THEN <<MIDDOT>>
    ELSE IF x = 13 THEN <<"<", "C", "R", ">">>
    ELSE IF x = 10 THEN <<"<", "L", "F", ">", "\n">>
    ELSE IF 9 <= x /\ x <= 13 THEN <<"<", "0", "x">> \o Hex2(x) \o <<">">>
    ELSE IF 33 <= x /\ x <= 126 THEN <<Printable[x - 32]>>
    ELSE <<"\\", "x">> \o Hex2(x)

\* make_visible(data): the loop leaves at the first zero byte (if not x: break)
RECURSIVE make_visible(_)
make_visible(b) ==
    IF b = <<>> \/ Head(b) = 0 THEN <<>>
    ELSE VisiblePiece(Head(b)) \o make_visible(Tail(b))

\* visible_bytes(b) of STPX, ATD_delay and ATWS_delay
RECURSIVE visible_bytes(_)
visible_bytes(b) ==
    IF b = <<>> THEN <<>>
    ELSE VisiblePiece(Head(b)) \o visible_bytes(Tail(b))

\* visible_bytes(b) of STRSTNVM_delay
RECURSIVE visible_bytes_STRSTNVM(_)
visible_bytes_STRSTNVM(b) ==
    IF b = <<>> THEN <<>>
    ELSE VisiblePiece_STRSTNVM(Head(b)) \o visible_bytes_STRSTNVM(Tail(b))

\* " ".join(f"{x:02X}" for x in b)
RECURSIVE hex_bytes(_)
hex_bytes(b) ==
    IF b = <<>> THEN <<>>
    ELSE IF Len(b) = 1 THEN Hex2(b[1])
    ELSE Hex2(Head(b)) \o <<SP>> \o hex_bytes(Tail(b))

\* What read_until writes for a zero byte: chr(0) in STSBR_STBRT.py,
\* STSBR_ATI_CR.py and STBR_delay_1ms.py, a backslash and "0" in
\* STBR_def_tim.py and STSBR_STBRT_9600_delay.py.
NUL == "<NUL>"
ZeroTokens == { <<NUL>>, <<"\\", "0">> }

\* read_until: " ".join(f"{x:02X}" if x else '\0' for x in log_data)
RECURSIVE hex_bytes_read_until(_, _)
hex_bytes_read_until(b, zero) ==
    LET tok(x) == IF x # 0 THEN Hex2(x) ELSE zero
    IN  IF b = <<>> THEN <<>>
        ELSE IF Len(b) = 1 THEN tok(b[1])
        ELSE tok(Head(b)) \o <<SP>> \o hex_bytes_read_until(Tail(b), zero)

\* The difference of two recorded times with a fixed latency taken off, which no report does.
IntervalCorrected(t_a, t_b) == t_b - t_a - 1

\* t_b - t_a, the difference every report takes of two recorded times
Interval(t_a, t_b) == t_b - t_a

\* f"{n:03d}"
Pad3(n) == << Digits[(n \div 100) + 1], Digits[((n \div 10) % 10) + 1], Digits[(n % 10) + 1] >>

\* f"{x * 1000.0:.3f}" for a time x held in microseconds
MsText(us) ==
    IF us < 0 THEN <<"-">> \o DecimalText((0 - us) \div 1000) \o <<".">> \o Pad3((0 - us) % 1000)
    ELSE DecimalText(us \div 1000) \o <<".">> \o Pad3(us % 1000)

\* The byte value of a character of the model's texts (str.encode("ascii")).
Byte(ch) ==
    IF ch = CR THEN 13
    ELSE IF ch = SP THEN 32
    ELSE IndexIn(ch, Printable) + 32

\* bytes of a text
Bytes(text) == [i \in 1..Len(text) |-> Byte(text[i])]

\* write_log(log, f"\n--- [{num}] {visible} ---"): the header of a command
LogHeader(n, text) == [k |-> "header", num |-> n, visible |-> make_visible(Bytes(text))]

\* A header that carries no command number, as the ACK and the banner and
\* prompt reads of stbr_fast_switch write.
LogTitle(text) == [k |-> "title", visible |-> text]

\* A section that is left out of the log.
NoSection(data) == [k |-> "none"]

\* write_log_section(log, data): len=, the visible rendering, HEX:
LogSection(data) ==
    [k |-> "section", len |-> Len(data), visible |-> make_visible(Bytes(data)),
     hex |-> hex_bytes(Bytes(data))]

\* The transcript as the state keeps it: the header of the command in progress,
\* without the lines that followed it.
HeaderOnly(l) == IF l = <<>> THEN <<>> ELSE <<l[1]>>

\* write_log(log, "ERROR: Could not parse baud from STSBR command.")
LogError == [k |-> "error"]

\* ------------------------------------------------------------ commands
T_STRSTNVM == <<"S", "T", "R", "S", "T", "N", "V", "M">>
T_STI == <<"S", "T", "I">>
T_STBRT_5000 == <<"S", "T", "B", "R", "T", " ", "5", "0", "0", "0">>
T_STSBR_115200 == <<"S", "T", "S", "B", "R", " ", "1", "1", "5", "2", "0", "0">>
T_STBR_115200 == <<"S", "T", "B", "R", " ", "1", "1", "5", "2", "0", "0">>

Cmd(text, delay) == [cmd |-> text, delay |-> delay]

RestartSequence(sequence, n) == sequence

\* seq = SEQUENCE[num:]
Remaining(sequence, n) == SubSeq(sequence, n + 1, Len(sequence))

\* SEQUENCE of STSBR_STBRT_115200_delay.py
SEQUENCE_115200 ==
    << Cmd(T_STRSTNVM, STRSTNVM_DELAY),
       Cmd(T_STBRT_5000, BASE_DELAY),
       Cmd(T_STSBR_115200, 0),
       Cmd(T_STRSTNVM, STRSTNVM_DELAY),
       Cmd(T_STI, BASE_DELAY) >>

\* sleep(delay) in ticks
Ticks(delay) == IF delay = 0 THEN 0 ELSE DelayTicks


\* ------------------------------------------------------------------ state
VARIABLES
    script,       \* which script's main() is running
    pc,           \* the host's position in that script
    clock,        \* time(), in ticks since the current command began
    quiet,        \* ticks since the last byte arrived at the port, up to QuietCap
    portOpen,     \* the Serial object is open
    portBaud,     \* ser.baudrate of the host port
    rxq,          \* the port's input buffer (ser.in_waiting == Len(rxq))
    stale,        \* how many bytes at the head of rxq arrived before the last speed change
    devQ,         \* the bursts the device has still to send
    num,          \* main(): number of the next command
    baud,         \* main(): the speed the session records as current
    seq,          \* main(): the commands the for loop has still to run
    cmd,          \* the (cmd, delay) pair being handled
    fn,           \* locals of the running send function
    rd,           \* locals of the running reader
    res,          \* what the command just handled logged
    sent,         \* the command numbers written to the port, in order
    steps,        \* the await steps of the running handshake that polled the port
    staleRead,    \* how many stale bytes reads have put into a buffer
    got,          \* the bytes the port has queued since its input was last reset
    timedOut,     \* the numbers of the commands whose handshake ended without a marker
    glob,         \* the module-level variables main() rebinds (STARTING_BAUD, TIMEOUT, t_ok_old)
    plan,         \* main(): SEQUENCE, the commands of the session
    wire,         \* the bytes of the last ser.write()
    log,          \* the header of the command in progress and the lines the latest step wrote
    faults        \* how many channel operations have raised

vars == << script, pc, clock, quiet, portOpen, portBaud, rxq, stale, devQ,
           num, baud, seq, cmd, fn, rd, res, sent, steps, staleRead, got, timedOut,
           glob, plan, wire, log, faults >>

NoRecord == [none |-> TRUE]

\* The longest silence the model tells apart.
QuietCap == Max(IdleGapTicks, PromptWaitTicks) + 1

\* sleep(): d ticks pass.
Sleep(d) ==
    /\ clock + d <= MaxTime
    /\ clock' = clock + d
    /\ quiet' = Min(quiet + d, QuietCap)

NoSleep == UNCHANGED << clock, quiet >>

\* ----------------------------------------------------------------- device
\* A device answer is a sequence of bursts; a burst reaches the port whole.
\* The answer sent one byte per burst.
Bytewise(s) == [i \in 1..Len(s) |-> << s[i] >>]

\* What the device may answer to a plain command.
RespPlain == { <<>>, << <<"O", "K">>, <<CR, GT>> >> }

\* What the device may answer to STSBR <baud>.
RespStsbr ==
    { <<>>,
      Bytewise(<<"O", "K">>),
      Bytewise(<<"?", CR, GT>>),
      Bytewise(<<"O", "K", CR, CR, GT>>),
      Bytewise(<<CR, "O", "K", CR, GT>>),
      Bytewise(<<GT, "O", "K", CR, CR, GT>>) }

\* The device puts its next burst on the wire; an open port queues it, a
\* closed port loses it.
DeviceEmit ==
    /\ devQ # <<>>
    /\ devQ' = Tail(devQ)
    /\ IF portOpen
       THEN /\ rxq' = rxq \o Head(devQ)
            /\ got' = got \o Head(devQ)
            /\ quiet' = 0
       ELSE UNCHANGED << rxq, got, quiet >>
    /\ UNCHANGED << script, pc, clock, portOpen, portBaud, stale, num, baud, seq,
                    cmd, fn, rd, res, sent, steps, staleRead, timedOut, glob,
                    plan, wire, log, faults >>

\* ------------------------------------------------------------------- port
\* ser.reset_input_buffer() that leaves the queue as it is.
KeepInput(q) == q

\* ser.reset_input_buffer(): the input queue afterwards.
ResetInput(q) == <<>>

\* A flush that leaves the port as it is.
NoFlush == UNCHANGED << rxq, stale, got >>

\* ser.reset_input_buffer()
Flush ==
    /\ rxq' = ResetInput(rxq)
    /\ stale' = Min(stale, Len(rxq'))
    /\ got' = rxq'

\* ser.read(ser.in_waiting): the whole queue is taken.
ReadAll ==
    /\ rxq' = <<>>
    /\ staleRead' = staleRead + stale
    /\ stale' = 0

NoRead == UNCHANGED << rxq, stale, staleRead >>

\* The assignment leaves the port at the speed it had.
KeepBaud(b) ==
    /\ portBaud' = portBaud
    /\ stale' = Len(rxq)

\* ser.baudrate = b on the open port
SetBaud(b) ==
    /\ portBaud' = b
    /\ stale' = Len(rxq)

\* The input buffer is emptied and the port keeps its speed.
ResetOnly(b) ==
    /\ portBaud' = portBaud
    /\ rxq' = ResetInput(rxq)
    /\ stale' = Len(rxq')
    /\ got' = rxq'

\* ser.baudrate = b; ser.reset_input_buffer()
SwitchAndReset(b) ==
    /\ portBaud' = b
    /\ rxq' = ResetInput(rxq)
    /\ stale' = Len(rxq')
    /\ got' = rxq'

\* An idle test that stops one slice early.
IdleShort(now, last_rx, idle_gap) == now - last_rx >= idle_gap - 1

\* (time() - last_rx) >= idle_gap
IdleElapsed(now, last_rx, idle_gap) == now - last_rx >= idle_gap

\* if a is not None and b is not None: the interval is reported
ReportInterval(a, b) == a # None /\ b # None

\* -------------------------------------- STSBR_STBRT_115200_delay.py
\* ok_pos_end that forgets the anchor.
NoAnchorEnd(p_ok) == 0

\* ok_pos_end = p_ok + 2
StsbrAnchorEnd(p_ok) == p_ok + 2

\* read_stsbr_with_baud_switch: the locals at entry (lines 110-119)
SwitchReaderStart(deadline) ==
    [buf_old |-> <<>>, buf_new |-> <<>>, ok_time |-> None,
     prompt_time |-> None, cr1_time |-> None, ok_pos_end |-> 0,
     deadline |-> deadline, p_ok |-> None, p_cr |-> None, t_read |-> None]

\* One pass of the phase-1 loop body on a chunk just read (lines 130-143).
Phase1Chunk(r, chunk, now) ==
    LET b       == r.buf_old \o chunk
        p_ok    == IF r.ok_time = None THEN Find(b, OK, 0) ELSE None
        okNow   == r.ok_time = None /\ p_ok # None
        ok_t    == IF okNow THEN now ELSE r.ok_time
        ok_end  == IF okNow THEN StsbrAnchorEnd(p_ok) ELSE r.ok_pos_end
        p_cr    == IF ok_t # None /\ r.cr1_time = None
                   THEN Find(b, <<CR>>, ok_end) ELSE None
    IN  [r EXCEPT !.buf_old = b,
                  !.t_read = now,
                  !.ok_time = ok_t,
                  !.ok_pos_end = ok_end,
                  !.cr1_time = IF p_cr # None THEN now ELSE r.cr1_time,
                  !.p_ok = IF okNow THEN p_ok ELSE r.p_ok,
                  !.p_cr = IF p_cr # None THEN p_cr ELSE r.p_cr]

\* One pass of the phase-2 loop body on a chunk just read (lines 171-176).
Phase2Chunk(r, chunk, now) ==
    LET b == r.buf_new \o chunk
    IN  [r EXCEPT !.buf_new = b,
                  !.t_read = now,
                  !.prompt_time = IF Contains(b, <<GT>>) THEN now ELSE r.prompt_time]

\* A phase-2 deadline test that allows one more poll.
Phase2Extended(now, r) == now >= r.deadline + 1

\* phase 2: if now >= deadline: break (lines 165-167)
Phase2Expired(now, r) == now >= r.deadline

\* A session that stops at a handshake that saw no prompt.
AbortOnTimeout(ok_t, prompt_t) == IF prompt_t = None THEN "done" ELSE "next"

\* main(): the for loop goes on to the next command whatever send_and_log
\* returned (lines 268-271)
AfterHandshake(ok_t, prompt_t) == "next"

\* The host switches although the first CR after OK was not seen.
SwitchAlways(r) == TRUE

\* if cr1_time is not None (line 148)
SwitchAllowed(r) == r.cr1_time # None

IsStsbr(text) == StartsWith(Upper(Strip(text)), <<"S", "T", "S", "B", "R">>)

\* main(): with Serial(PORT, baudrate=baud, timeout=0) as port
A_Open ==
    /\ script = "STSBR_115200" /\ pc = "open"
    /\ num < Len(plan)
    /\ portOpen' = TRUE /\ portBaud' = baud
    /\ rxq' = <<>> /\ stale' = 0 /\ got' = <<>>
    /\ seq' = Remaining(plan, num)
    /\ pc' = "next"
    /\ log' = HeaderOnly(log)
    /\ UNCHANGED << script, clock, quiet, devQ, num, baud, cmd, fn, rd, res, sent,
                    steps, staleRead, timedOut, glob, plan, wire, faults >>

\* main(): for cmd, delay in seq; send_and_log up to sleep(0.05)
A_Next ==
    /\ script = "STSBR_115200" /\ pc = "next"
    /\ IF seq = <<>>
       THEN /\ pc' = "done"
            /\ portOpen' = FALSE
            /\ UNCHANGED << seq, cmd, clock, quiet >>
       ELSE /\ cmd' = Head(seq)
            /\ seq' = Tail(seq)
            /\ clock' = 1
            /\ quiet' = Min(quiet + 1, QuietCap)
            /\ pc' = "tx"
            /\ UNCHANGED portOpen
    /\ res' = NoRecord
    /\ log' = IF seq = <<>> THEN <<>> ELSE <<LogHeader(num, Head(seq).cmd)>>
    /\ UNCHANGED << script, portBaud, rxq, stale, devQ, num, baud, fn, rd, sent, steps,
                    staleRead, got, timedOut, glob, plan, wire, faults >>

\* send_and_log: reset_input_buffer, t_tx, write, and the branch taken
A_Tx ==
    /\ script = "STSBR_115200" /\ pc = "tx"
    /\ Flush
    /\ sent' = Append(sent, num)
    /\ \E r \in (IF IsStsbr(cmd.cmd) THEN RespStsbr ELSE RespPlain) : devQ' = r
    /\ IF IsStsbr(cmd.cmd) /\ parse_stsbr_baud(cmd.cmd) # None
       THEN /\ fn' = [t_tx |-> clock, new_baud |-> parse_stsbr_baud(cmd.cmd),
                      old_baud |-> portBaud, error |-> FALSE]
            /\ rd' = SwitchReaderStart(clock + StsbrTimeoutTicks)
            /\ pc' = "phase1"
       ELSE /\ fn' = [t_tx |-> clock, new_baud |-> None, old_baud |-> portBaud,
                      error |-> IsStsbr(cmd.cmd)]
            /\ rd' = NoRecord
            /\ pc' = "delay"
    /\ steps' = <<>>
    /\ wire' = AppendNewline(cmd.cmd)
    /\ log' = IF IsStsbr(cmd.cmd) /\ parse_stsbr_baud(cmd.cmd) = None
              THEN Append(HeaderOnly(log), LogError)
              ELSE HeaderOnly(log)
    /\ UNCHANGED << script, clock, quiet, portOpen, portBaud, num, baud, seq, cmd, res,
                    staleRead, timedOut, glob, plan, faults >>

\* send_and_log: sleep(delay), then read_until_idle starts
A_Delay ==
    /\ script = "STSBR_115200" /\ pc = "delay"
    /\ Sleep(Ticks(cmd.delay))
    /\ rd' = [buf |-> <<>>, last_rx |-> clock', start |-> clock']
    /\ pc' = "idle"
    /\ log' = HeaderOnly(log)
    /\ UNCHANGED << script, portOpen, portBaud, rxq, stale, devQ, num, baud, seq, cmd,
                    fn, res, sent, steps, staleRead, got, timedOut, glob, plan, wire,
                    faults >>

\* read_until_idle: one pass of the loop (lines 58-66)
A_Idle ==
    /\ script = "STSBR_115200" /\ pc = "idle"
    /\ IF rxq # <<>>
       THEN /\ rd' = [rd EXCEPT !.buf = rd.buf \o rxq, !.last_rx = clock]
            /\ ReadAll
            /\ NoSleep
            /\ UNCHANGED pc
       ELSE IF IdleElapsed(clock, rd.last_rx, IdleGapTicks)
            THEN /\ pc' = "logged"
                 /\ NoRead /\ NoSleep
                 /\ UNCHANGED rd
            ELSE /\ Sleep(1)
                 /\ NoRead
                 /\ UNCHANGED << rd, pc >>
    /\ log' = HeaderOnly(log)
    /\ UNCHANGED << script, portOpen, portBaud, devQ, num, baud, seq, cmd, fn, res,
                    sent, steps, got, timedOut, glob, plan, wire, faults >>

\* send_and_log: write_log_section and return num + 1, None (plain and error paths)
A_Logged ==
    /\ script = "STSBR_115200" /\ pc = "logged"
    /\ res' = [num |-> num, handshake |-> FALSE, error |-> fn.error, data |-> rd.buf,
               start |-> rd.start, T1 |-> None, T2 |-> None]
    /\ num' = num + 1
    /\ rd' = NoRecord
    /\ pc' = "next"
    /\ log' = Append(HeaderOnly(log), LogSection(rd.buf))
    /\ UNCHANGED << script, clock, quiet, portOpen, portBaud, rxq, stale, devQ, baud,
                    seq, cmd, fn, sent, steps, staleRead, got, timedOut, glob, plan,
                    wire, faults >>

\* read_stsbr_with_baud_switch: one pass of the phase-1 loop (lines 122-145)
A_Phase1 ==
    /\ script = "STSBR_115200" /\ pc = "phase1"
    /\ IF clock >= rd.deadline
       THEN /\ pc' = "switch"
            /\ NoRead /\ NoSleep
            /\ UNCHANGED << rd, steps >>
       ELSE /\ steps' = IF steps = <<>> THEN <<"OLD_OK_CR">> ELSE steps
            /\ IF rxq # <<>>
               THEN /\ rd' = Phase1Chunk(rd, rxq, clock)
                    /\ ReadAll
                    /\ IF rd'.cr1_time # None
                       THEN pc' = "switch" /\ NoSleep
                       ELSE Sleep(1) /\ UNCHANGED pc
               ELSE /\ Sleep(1)
                    /\ NoRead
                    /\ UNCHANGED << rd, pc >>
    /\ log' = HeaderOnly(log)
    /\ UNCHANGED << script, portOpen, portBaud, devQ, num, baud, seq, cmd, fn, res,
                    sent, got, timedOut, glob, plan, wire, faults >>

\* read_stsbr_with_baud_switch: ser.baudrate = new_baud (lines 148-152)
A_Switch ==
    /\ script = "STSBR_115200" /\ pc = "switch"
    /\ IF SwitchAllowed(rd)
       THEN /\ SetBaud(fn.new_baud)
            /\ steps' = Append(steps, "SWITCH_NEW")
            /\ pc' = "settle"
       ELSE /\ pc' = "phase2"
            /\ UNCHANGED << portBaud, stale, steps >>
    /\ log' = HeaderOnly(log)
    /\ UNCHANGED << script, clock, quiet, portOpen, rxq, devQ, num, baud, seq, cmd, fn,
                    rd, res, sent, staleRead, got, timedOut, glob, plan, wire, faults >>

\* read_stsbr_with_baud_switch: sleep(0.01), ser.reset_input_buffer() (lines 155-161)
A_Settle ==
    /\ script = "STSBR_115200" /\ pc = "settle"
    /\ Flush
    /\ pc' = "phase2"
    /\ log' = HeaderOnly(log)
    /\ UNCHANGED << script, clock, quiet, portOpen, portBaud, devQ, num, baud, seq, cmd,
                    fn, rd, res, sent, steps, staleRead, timedOut, glob, plan, wire,
                    faults >>

\* read_stsbr_with_baud_switch: one pass of the phase-2 loop (lines 164-178)
A_Phase2 ==
    /\ script = "STSBR_115200" /\ pc = "phase2"
    /\ IF Phase2Expired(clock, rd)
       THEN /\ pc' = "return"
            /\ NoRead /\ NoSleep
            /\ UNCHANGED << rd, steps >>
       ELSE /\ steps' = IF steps # <<>> /\ steps[Len(steps)] = "NEW_PROMPT"
                        THEN steps ELSE Append(steps, "NEW_PROMPT")
            /\ IF rxq # <<>>
               THEN /\ rd' = Phase2Chunk(rd, rxq, clock)
                    /\ ReadAll
                    /\ IF rd'.prompt_time # None
                       THEN pc' = "return" /\ NoSleep
                       ELSE Sleep(1) /\ UNCHANGED pc
               ELSE /\ Sleep(1)
                    /\ NoRead
                    /\ UNCHANGED << rd, pc >>
    /\ log' = HeaderOnly(log)
    /\ UNCHANGED << script, portOpen, portBaud, devQ, num, baud, seq, cmd, fn, res,
                    sent, got, timedOut, glob, plan, wire, faults >>

\* send_and_log: the STSBR log lines, return num + 1, new_baud; main keeps new_baud
A_Return ==
    /\ script = "STSBR_115200" /\ pc = "return"
    /\ res' = [num |-> num, handshake |-> TRUE, error |-> FALSE,
               data |-> rd.buf_old \o rd.buf_new,
               t_tx |-> fn.t_tx, ok_t |-> rd.ok_time, cr1_t |-> rd.cr1_time,
               prompt_t |-> rd.prompt_time,
               T1 |-> IF rd.ok_time # None THEN rd.ok_time - fn.t_tx ELSE None,
               T2 |-> IF ReportInterval(rd.ok_time, rd.prompt_time)
                      THEN rd.prompt_time - rd.ok_time ELSE None]
    /\ num' = num + 1
    /\ baud' = fn.new_baud
    /\ timedOut' = IF rd.prompt_time = None THEN timedOut \cup {num} ELSE timedOut
    /\ rd' = NoRecord
    /\ pc' = AfterHandshake(rd.ok_time, rd.prompt_time)
    /\ log' = Append(HeaderOnly(log), LogSection(rd.buf_old \o rd.buf_new))
    /\ UNCHANGED << script, clock, quiet, portOpen, portBaud, rxq, stale, devQ, seq,
                    cmd, fn, sent, steps, staleRead, got, glob, plan, wire, faults >>

Next_115200 ==
    \/ A_Open \/ A_Next \/ A_Tx \/ A_Delay \/ A_Idle \/ A_Logged
    \/ A_Phase1 \/ A_Switch \/ A_Settle \/ A_Phase2 \/ A_Return

\* ------------------------------------------------------ STBR_def_tim.py
OK_CR == <<"O", "K", CR>>
BANNER == <<"S", "T", "N", "2", "1", "2", "0", SP, "v", "5", ".", "6", ".", "5", CR>>
PROMPT == <<"O", "K", CR, CR, GT>>

\* SEQUENCE of STBR_def_tim.py
SEQUENCE_def_tim ==
    << Cmd(T_STRSTNVM, STRSTNVM_DELAY),
       Cmd(T_STBR_115200, 0),
       Cmd(T_STI, BASE_DELAY),
       Cmd(T_STRSTNVM, BASE_DELAY),
       Cmd(T_STI, BASE_DELAY) >>

\* A device that keeps sending bytes that hold no marker.
Junk == [i \in 1..(OkWaitTicks + BannerWaitTicks + PromptWaitTicks + 2) |-> "x"]

\* What the device may answer to STBR <baud>.
RespStbr ==
    { <<>>,
      << <<"?", CR, GT>> >>,
      << OK_CR >>,
      << BANNER >>,
      << OK_CR, BANNER, PROMPT >>,
      << <<"O">>, <<"K", CR>>, BANNER, PROMPT >>,
      Bytewise(Junk) }

\* read_until(ser, delay, command): the locals at entry (lines 58-63)
ReadUntilStart(delay, command, now) ==
    [buf |-> <<>>, last_rx_wall |-> now, t_first |-> None, t_last |-> None,
     t_found |-> None, delay |-> delay, command |-> command, start |-> now]

\* A loop body that does not look for the marker.
ReadUntilChunkBlind(r, chunk, now) ==
    [r EXCEPT !.buf = r.buf \o chunk,
              !.t_first = IF r.t_first = None THEN now ELSE r.t_first,
              !.t_last = now,
              !.last_rx_wall = now]

\* read_until: the loop body on a chunk just read (lines 68-79)
ReadUntilChunk(r, chunk, now) ==
    LET b == r.buf \o chunk
    IN  [r EXCEPT !.buf = b,
                  !.t_first = IF r.t_first = None THEN now ELSE r.t_first,
                  !.t_last = now,
                  !.last_rx_wall = now,
                  !.t_found = IF r.command # <<>> /\ r.t_found = None
                                 /\ Contains(b, r.command)
                              THEN now ELSE r.t_found]

\* read_until: one pass of the loop (lines 65-85); TRUE in rd'.done when it breaks
ReadUntilPass ==
    IF rxq # <<>>
    THEN /\ rd' = ReadUntilChunk(rd, rxq, clock)
         /\ ReadAll
         /\ IF rd'.t_found # None
            THEN NoSleep /\ pc' = "done_" \o pc
            ELSE Sleep(1) /\ UNCHANGED pc
    ELSE IF IdleElapsed(clock, rd.last_rx_wall, rd.delay)
         THEN /\ pc' = "done_" \o pc
              /\ NoRead /\ NoSleep
              /\ UNCHANGED rd
         ELSE /\ Sleep(1)
              /\ NoRead
              /\ UNCHANGED << rd, pc >>

\* t_x_time = t_x if t_x is not None else tl (lines 139, 150, 160)
MarkerTime(r) == IF r.t_found # None THEN r.t_found ELSE r.t_last

IsStbr(text) == StartsWith(Upper(text), <<"S", "T", "B", "R", SP>>)

\* main(): with Serial(PORT, baudrate=baud, timeout=0) as port
B_Open ==
    /\ script = "STBR_def_tim" /\ pc = "open"
    /\ portOpen' = TRUE /\ portBaud' = baud
    /\ rxq' = <<>> /\ stale' = 0 /\ got' = <<>>
    /\ seq' = plan
    /\ pc' = "next"
    /\ log' = HeaderOnly(log)
    /\ UNCHANGED << script, clock, quiet, devQ, num, baud, cmd, fn, rd, res, sent,
                    steps, staleRead, timedOut, glob, plan, wire, faults >>

\* main(): for cmd, delay in SEQUENCE, and the branch on STBR
B_Next ==
    /\ script = "STBR_def_tim" /\ pc = "next"
    /\ IF seq = <<>>
       THEN /\ pc' = "done"
            /\ portOpen' = FALSE
            /\ UNCHANGED << seq, cmd, clock, quiet >>
       ELSE /\ cmd' = Head(seq)
            /\ seq' = Tail(seq)
            /\ IF IsStbr(cmd'.cmd) /\ FirstDigitWord(cmd'.cmd) = None
               THEN /\ pc' = "failed"
                    /\ portOpen' = FALSE
                    /\ UNCHANGED << clock, quiet >>
               ELSE IF IsStbr(cmd'.cmd)
               THEN /\ clock' = 0
                    /\ UNCHANGED << quiet, portOpen >>
                    /\ pc' = "hs_tx"
               ELSE /\ clock' = 1
                    /\ quiet' = Min(quiet + 1, QuietCap)
                    /\ UNCHANGED portOpen
                    /\ pc' = "tx"
    /\ res' = NoRecord
    /\ log' = IF seq = <<>> \/ IsStbr(Head(seq).cmd) THEN <<>>
              ELSE <<LogHeader(num, Head(seq).cmd)>>
    /\ UNCHANGED << script, portBaud, rxq, stale, devQ, num, baud, fn, rd, sent, steps,
                    staleRead, got, timedOut, glob, plan, wire, faults >>

\* send_and_log_simple: reset_input_buffer, write (lines 106-107)
B_Tx ==
    /\ script = "STBR_def_tim" /\ pc = "tx"
    /\ Flush
    /\ sent' = Append(sent, num)
    /\ \E r \in RespPlain : devQ' = r
    /\ fn' = [t_tx |-> clock]
    /\ steps' = <<>>
    /\ pc' = "delay"
    /\ wire' = EnsureNewline(cmd.cmd)
    /\ log' = HeaderOnly(log)
    /\ UNCHANGED << script, clock, quiet, portOpen, portBaud, num, baud, seq, cmd, rd,
                    res, staleRead, timedOut, glob, plan, faults >>

\* send_and_log_simple: if delay: sleep(delay); read_until(ser) starts
B_Delay ==
    /\ script = "STBR_def_tim" /\ pc = "delay"
    /\ Sleep(Ticks(cmd.delay))
    /\ rd' = ReadUntilStart(IdleGapTicks, <<>>, clock')
    /\ pc' = "read"
    /\ log' = HeaderOnly(log)
    /\ UNCHANGED << script, portOpen, portBaud, rxq, stale, devQ, num, baud, seq, cmd,
                    fn, res, sent, steps, staleRead, got, timedOut, glob, plan, wire,
                    faults >>

\* read_until: one pass of the loop, at any of its four call sites
B_Poll ==
    /\ script = "STBR_def_tim"
    /\ pc \in {"read", "hs_ok", "hs_banner", "hs_prompt"}
    /\ ReadUntilPass
    /\ log' = HeaderOnly(log)
    /\ UNCHANGED << script, portOpen, portBaud, devQ, num, baud, seq, cmd, fn, res,
                    sent, steps, got, timedOut, glob, plan, wire, faults >>

\* send_and_log_simple: write_log_section, return num + 1
B_Logged ==
    /\ script = "STBR_def_tim" /\ pc = "done_read"
    /\ res' = [num |-> num, handshake |-> FALSE, error |-> FALSE, data |-> rd.buf,
               start |-> rd.start, T1 |-> None, T2 |-> None]
    /\ num' = num + 1
    /\ rd' = NoRecord
    /\ pc' = "next"
    /\ log' = Append(HeaderOnly(log), LogSection(rd.buf))
    /\ UNCHANGED << script, clock, quiet, portOpen, portBaud, rxq, stale, devQ, baud,
                    seq, cmd, fn, sent, steps, staleRead, got, timedOut, glob, plan,
                    wire, faults >>

\* stbr_fast_switch: reset_input_buffer, write, read_until(OK_CR) starts (lines 132-136)
B_HsTx ==
    /\ script = "STBR_def_tim" /\ pc = "hs_tx"
    /\ Flush
    /\ sent' = Append(sent, num)
    /\ \E r \in RespStbr : devQ' = r
    /\ fn' = [new_baud |-> FirstDigitWord(cmd.cmd), old_baud |-> baud,
              t_tx |-> clock, t_ok |-> None, t_ok_time |-> None,
              t_bn |-> None, t_banner_time |-> None]
    /\ rd' = ReadUntilStart(OkWaitTicks, OK_CR, clock)
    /\ steps' = <<"OLD_OK">>
    /\ pc' = "hs_ok"
    /\ wire' = AppendNewline(<<"S", "T", "B", "R", SP>> \o DecimalText(FirstDigitWord(cmd.cmd)))
    /\ log' = <<LogHeader(num, <<"S", "T", "B", "R", SP>> \o DecimalText(FirstDigitWord(cmd.cmd)))>>
    /\ UNCHANGED << script, clock, quiet, portOpen, portBaud, num, baud, seq, cmd, res,
                    staleRead, timedOut, glob, plan, faults >>

\* stbr_fast_switch: baudrate = new_baud, reset, read_until(BANNER) starts (lines 137-146)
B_AfterOk ==
    /\ script = "STBR_def_tim" /\ pc = "done_hs_ok"
    /\ fn' = [fn EXCEPT !.t_ok = rd.t_found, !.t_ok_time = MarkerTime(rd)]
    /\ SwitchAndReset(fn.new_baud)
    /\ rd' = ReadUntilStart(BannerWaitTicks, BANNER, clock)
    /\ steps' = steps \o <<"SWITCH_NEW", "NEW_BANNER">>
    /\ pc' = "hs_banner"
    /\ log' = Append(HeaderOnly(log), LogSection(rd.buf))
    /\ UNCHANGED << script, clock, quiet, portOpen, devQ, num, baud, seq, cmd, res,
                    sent, staleRead, timedOut, glob, plan, wire, faults >>

\* stbr_fast_switch: baudrate = old_baud, reset, read_until(PROMPT) starts (lines 147-156)
B_AfterBanner ==
    /\ script = "STBR_def_tim" /\ pc = "done_hs_banner"
    /\ fn' = [fn EXCEPT !.t_bn = rd.t_found, !.t_banner_time = MarkerTime(rd)]
    /\ SwitchAndReset(fn.old_baud)
    /\ rd' = ReadUntilStart(PromptWaitTicks, PROMPT, clock)
    /\ steps' = steps \o <<"SWITCH_OLD", "OLD_PROMPT">>
    /\ pc' = "hs_prompt"
    /\ log' = HeaderOnly(log) \o <<LogTitle("BANNER @ NEW BAUD"), LogSection(rd.buf)>>
    /\ UNCHANGED << script, clock, quiet, portOpen, devQ, num, baud, seq, cmd, res,
                    sent, staleRead, timedOut, glob, plan, wire, faults >>

\* stbr_fast_switch: T1, T2, return num + 1; main: port.baudrate = baud (lines 157-196)
B_HsReturn ==
    /\ script = "STBR_def_tim" /\ pc = "done_hs_prompt"
    /\ LET t_prompt_time == MarkerTime(rd)
       IN  res' = [num |-> num, handshake |-> TRUE, error |-> FALSE, data |-> rd.buf,
                   t_tx |-> fn.t_tx, ok_t |-> fn.t_ok, banner_t |-> fn.t_bn,
                   prompt_t |-> rd.t_found,
                   T1 |-> IF ReportInterval(fn.t_ok_time, fn.t_banner_time)
                          THEN fn.t_banner_time - fn.t_ok_time ELSE None,
                   T2 |-> IF ReportInterval(fn.t_banner_time, t_prompt_time)
                          THEN t_prompt_time - fn.t_banner_time ELSE None]
    /\ num' = num + 1
    /\ SetBaud(baud)
    /\ timedOut' = IF fn.t_ok = None \/ fn.t_bn = None \/ rd.t_found = None
                   THEN timedOut \cup {num} ELSE timedOut
    /\ rd' = NoRecord
    /\ fn' = NoRecord
    /\ pc' = "next"
    /\ log' = HeaderOnly(log) \o <<LogTitle("PROMPT @ OLD BAUD"), LogSection(rd.buf)>>
    /\ UNCHANGED << script, clock, quiet, portOpen, rxq, devQ, baud, seq, cmd, sent,
                    steps, staleRead, got, glob, plan, wire, faults >>

Next_def_tim ==
    \/ B_Open \/ B_Next \/ B_Tx \/ B_Delay \/ B_Poll \/ B_Logged
    \/ B_HsTx \/ B_AfterOk \/ B_AfterBanner \/ B_HsReturn

\* ------------------------------------------------------ STSBR_ATI_CR.py
T_ATI == <<"A", "T", "I">>
T_CR == <<CR>>

\* SEQUENCE of STSBR_ATI_CR.py
SEQUENCE_ATI_CR ==
    << Cmd(T_STRSTNVM, STRSTNVM_DELAY),
       Cmd(T_STSBR_115200, 5),
       Cmd(T_ATI, BASE_DELAY),
       Cmd(T_CR, BASE_DELAY),
       Cmd(T_STRSTNVM, STRSTNVM_DELAY),
       Cmd(T_STI, BASE_DELAY) >>

\* What the device may answer to STSBR <baud> when the host only idle-reads.
RespStsbrIdle ==
    { <<>>,
      << <<"?", CR, GT>> >>,
      << <<"O", "K", CR>> >>,
      << <<"O", "K", CR>>, <<CR, GT>> >> }

\* read_until(ser, delay, command): the locals at entry (lines 41-42)
ReadUntilStart_ATI_CR(delay, command, now) ==
    [buf |-> <<>>, last_rx |-> now, delay |-> delay, command |-> command,
     start |-> now]

\* read_until: one pass of the loop (lines 43-54)
ReadUntilPass_ATI_CR ==
    IF rxq # <<>>
    THEN /\ rd' = [rd EXCEPT !.buf = rd.buf \o rxq, !.last_rx = clock]
         /\ ReadAll
         /\ Sleep(1)
         /\ UNCHANGED pc
    ELSE IF IdleElapsed(clock, rd.last_rx, rd.delay)
         THEN /\ pc' = "done_" \o pc
              /\ NoRead /\ NoSleep
              /\ UNCHANGED rd
         ELSE IF rd.command # <<>> /\ Contains(rd.buf, rd.command)
              THEN /\ pc' = "done_" \o pc
                   /\ NoRead /\ NoSleep
                   /\ UNCHANGED rd
              ELSE /\ Sleep(1)
                   /\ NoRead
                   /\ UNCHANGED << rd, pc >>

\* TIMEOUT = int(...) * 1.2, in ticks
ScaleTimeout(n) == (n * 12 * TimeoutTicks + 9) \div 10

\* send_and_log: cmd.upper().startswith("STSBR ")
IsStsbrSp(text) == StartsWith(Upper(text), <<"S", "T", "S", "B", "R", SP>>)

\* main(): with Serial(PORT, baudrate=baud, timeout=0) as port (lines 165-180).
\* With this SEQUENCE every open finds STARTING_BAUD = baud.
C_Open ==
    /\ script = "STSBR_ATI_CR" /\ pc = "open"
    /\ num < Len(plan)
    /\ glob.STARTING_BAUD = baud
    /\ portOpen' = TRUE /\ portBaud' = baud
    /\ rxq' = <<>> /\ stale' = 0 /\ got' = <<>>
    /\ seq' = Remaining(plan, num)
    /\ pc' = "next"
    /\ log' = HeaderOnly(log)
    /\ UNCHANGED << script, clock, quiet, devQ, num, baud, cmd, fn, rd, res, sent,
                    steps, staleRead, timedOut, glob, plan, wire, faults >>

\* main(): for cmd, delay in seq; send_and_log picks its path (line 126)
C_Next ==
    /\ script = "STSBR_ATI_CR" /\ pc = "next"
    /\ IF seq = <<>>
       THEN /\ pc' = "done"
            /\ portOpen' = FALSE
            /\ UNCHANGED << seq, cmd >>
       ELSE /\ cmd' = Head(seq)
            /\ seq' = Tail(seq)
            /\ UNCHANGED portOpen
            /\ pc' = IF IsStsbrSp(cmd'.cmd) THEN "hs_tx" ELSE "tx"
    /\ clock' = 0
    /\ res' = NoRecord
    /\ log' = IF seq = <<>> THEN <<>> ELSE <<LogHeader(num, Head(seq).cmd)>>
    /\ UNCHANGED << script, quiet, portBaud, rxq, stale, devQ, num, baud, fn, rd, sent,
                    steps, staleRead, got, timedOut, glob, plan, wire, faults >>

\* send_and_log: reset_input_buffer, write (lines 139-141)
C_Tx ==
    /\ script = "STSBR_ATI_CR" /\ pc = "tx"
    /\ Flush
    /\ sent' = Append(sent, num)
    /\ \E r \in RespPlain : devQ' = r
    /\ fn' = [t_tx |-> clock]
    /\ steps' = <<>>
    /\ pc' = "delay"
    /\ wire' = AppendNewline(cmd.cmd)
    /\ log' = HeaderOnly(log)
    /\ UNCHANGED << script, clock, quiet, portOpen, portBaud, num, baud, seq, cmd, rd,
                    res, staleRead, timedOut, glob, plan, faults >>

\* send_and_log: sleep(delay); read_until(ser) starts (lines 142-144)
C_Delay ==
    /\ script = "STSBR_ATI_CR" /\ pc = "delay"
    /\ Sleep(Ticks(cmd.delay))
    /\ rd' = ReadUntilStart_ATI_CR(IdleGapTicks, <<>>, clock')
    /\ pc' = "read"
    /\ log' = HeaderOnly(log)
    /\ UNCHANGED << script, portOpen, portBaud, rxq, stale, devQ, num, baud, seq, cmd,
                    fn, res, sent, steps, staleRead, got, timedOut, glob, plan, wire,
                    faults >>

\* read_until: one pass of the loop, at any of its call sites
C_Poll ==
    /\ script = "STSBR_ATI_CR"
    /\ pc \in {"read", "hs_old", "hs_new"}
    /\ ReadUntilPass_ATI_CR
    /\ log' = HeaderOnly(log)
    /\ UNCHANGED << script, portOpen, portBaud, devQ, num, baud, seq, cmd, fn, res,
                    sent, steps, got, timedOut, glob, plan, wire, faults >>

\* The branches of main() after send_and_log has returned (lines 183-193).
AfterCommand_ATI_CR(text, new_num) ==
    LET up == Upper(text)
    IN  IF Contains(up, <<"S", "T", "B", "R", "T">>)
        THEN /\ glob' = [glob EXCEPT !.TIMEOUT = ScaleTimeout(FirstDigitWord(text))]
             /\ UNCHANGED << baud, portOpen >>
             /\ pc' = "next"
        ELSE IF Contains(up, <<"S", "T", "S", "B", "R", SP>>)
        THEN /\ glob' = [glob EXCEPT !.STARTING_BAUD = baud]
             /\ baud' = FirstDigitWord(text)
             /\ UNCHANGED portOpen
             /\ pc' = "next"
        ELSE IF Contains(up, T_STRSTNVM) /\ baud # 9600
        THEN /\ glob' = [glob EXCEPT !.STARTING_BAUD = 9600, !.TIMEOUT = TimeoutTicks]
             /\ baud' = 9600
             /\ portOpen' = FALSE
             /\ pc' = IF new_num < Len(plan) THEN "open" ELSE "done"
        ELSE /\ UNCHANGED << glob, baud, portOpen >>
             /\ pc' = "next"

\* send_and_log: write_log_section, return num + 1; main's branches
C_Logged ==
    /\ script = "STSBR_ATI_CR" /\ pc = "done_read"
    /\ res' = [num |-> num, handshake |-> FALSE, error |-> FALSE, data |-> rd.buf,
               start |-> rd.start, T1 |-> None, T2 |-> None]
    /\ num' = num + 1
    /\ rd' = NoRecord
    /\ AfterCommand_ATI_CR(cmd.cmd, num')
    /\ log' = Append(HeaderOnly(log), LogSection(rd.buf))
    /\ UNCHANGED << script, clock, quiet, portBaud, rxq, stale, devQ, seq, cmd, fn,
                    sent, steps, staleRead, got, timedOut, plan, wire, faults >>

\* send_stsbr_and_switch_baud: reset, write, read_until(STSBR_OLD_READ_SEC) starts (lines 89-100)
C_HsTx ==
    /\ script = "STSBR_ATI_CR" /\ pc = "hs_tx"
    /\ Flush
    /\ sent' = Append(sent, num)
    /\ \E r \in RespStsbrIdle : devQ' = r
    /\ fn' = [new_baud |-> FirstDigitWord(cmd.cmd), old_baud |-> portBaud,
              t_tx |-> clock, old_data |-> <<>>]
    /\ rd' = ReadUntilStart_ATI_CR(OldReadTicks, <<>>, clock)
    /\ steps' = <<"OLD_SNIFF">>
    /\ pc' = "hs_old"
    /\ wire' = AppendNewline(cmd.cmd)
    /\ log' = HeaderOnly(log)
    /\ UNCHANGED << script, clock, quiet, portOpen, portBaud, num, baud, seq, cmd, res,
                    staleRead, timedOut, glob, plan, faults >>

\* send_stsbr_and_switch_baud: sleep(STSBR_GUARD_SEC), baudrate = new_baud,
\* reset_input_buffer, read_until(IDLE_GAP_SEC) starts (lines 106-113)
C_Guard ==
    /\ script = "STSBR_ATI_CR" /\ pc = "done_hs_old"
    /\ fn' = [fn EXCEPT !.old_data = rd.buf]
    /\ SwitchAndReset(fn.new_baud)
    /\ rd' = ReadUntilStart_ATI_CR(IdleGapTicks, <<>>, clock)
    /\ steps' = steps \o <<"SWITCH_NEW", "NEW_IDLE">>
    /\ pc' = "hs_new"
    /\ log' = IF make_visible(Bytes(rd.buf)) # <<>>
              THEN HeaderOnly(log) \o <<LogTitle("pre-switch @ old baud"), LogSection(rd.buf)>>
              ELSE HeaderOnly(log)
    /\ UNCHANGED << script, clock, quiet, portOpen, devQ, num, baud, seq, cmd, res,
                    sent, staleRead, timedOut, glob, plan, wire, faults >>

\* send_stsbr_and_switch_baud: return num + 1, new_baud; main's branches
C_HsReturn ==
    /\ script = "STSBR_ATI_CR" /\ pc = "done_hs_new"
    /\ res' = [num |-> num, handshake |-> TRUE, error |-> FALSE, data |-> rd.buf,
               start |-> rd.start, old_data |-> fn.old_data,
               T1 |-> None, T2 |-> None]
    /\ num' = num + 1
    /\ rd' = NoRecord
    /\ fn' = NoRecord
    /\ AfterCommand_ATI_CR(cmd.cmd, num')
    /\ log' = HeaderOnly(log) \o <<LogTitle("post-switch @ new baud"), LogSection(rd.buf)>>
    /\ UNCHANGED << script, clock, quiet, portBaud, rxq, stale, devQ, seq, cmd, sent,
                    steps, staleRead, got, timedOut, plan, wire, faults >>

Next_ATI_CR ==
    \/ C_Open \/ C_Next \/ C_Tx \/ C_Delay \/ C_Poll \/ C_Logged
    \/ C_HsTx \/ C_Guard \/ C_HsReturn

\* ---------------------------------------------------- STBR_delay_1ms.py
T_STBRT_1 == <<"S", "T", "B", "R", "T", SP, "1">>

\* SEQUENCE of STBR_delay_1ms.py
SEQUENCE_delay_1ms ==
    << Cmd(T_STRSTNVM, STRSTNVM_DELAY),
       Cmd(T_STBRT_1, BASE_DELAY),
       Cmd(T_STBR_115200, 0),
       Cmd(T_STI, BASE_DELAY),
       Cmd(T_STRSTNVM, BASE_DELAY),
       Cmd(T_STI, BASE_DELAY) >>

\* What the device may answer to STBR <baud> when the host reopens the port.
RespStbrReopen ==
    { <<>>,
      << <<"?", CR, GT>> >>,
      << OK_CR >>,
      << BANNER >>,
      << OK_CR, BANNER >> }

\* What the device may answer to the ACK byte.
RespAck == { <<>>, << PROMPT >>, << OK_CR, <<CR, GT>> >> }

\* main(): with Serial(PORT, baudrate=baud, timeout=0) as port, and the
\* banner read after a speed change (lines 151-158, 197)
D_Open ==
    /\ script = "STBR_delay_1ms" /\ pc = "open"
    /\ num < Len(plan)
    /\ portOpen' = TRUE /\ portBaud' = baud
    /\ rxq' = <<>> /\ stale' = 0 /\ got' = <<>>
    /\ IF glob.STARTING_BAUD # baud
       THEN /\ rd' = ReadUntilStart(glob.TIMEOUT, BANNER, clock)
            /\ steps' = <<"REOPEN_NEW", "NEW_BANNER">>
            /\ pc' = "hs_banner"
            /\ UNCHANGED seq
       ELSE /\ seq' = Remaining(plan, num)
            /\ pc' = "next"
            /\ UNCHANGED << rd, steps >>
    /\ log' = HeaderOnly(log)
    /\ UNCHANGED << script, clock, quiet, devQ, num, baud, cmd, fn, res, sent,
                    staleRead, timedOut, glob, plan, wire, faults >>

\* main(): for cmd, delay in seq; send_and_log up to sleep(0.05)
D_Next ==
    /\ script = "STBR_delay_1ms" /\ pc = "next"
    /\ IF seq = <<>>
       THEN /\ pc' = "done"
            /\ portOpen' = FALSE
            /\ UNCHANGED << seq, cmd, clock, quiet >>
       ELSE /\ cmd' = Head(seq)
            /\ seq' = Tail(seq)
            /\ clock' = 1
            /\ quiet' = Min(quiet + 1, QuietCap)
            /\ pc' = "tx"
            /\ UNCHANGED portOpen
    /\ res' = NoRecord
    /\ log' = IF seq = <<>> THEN <<>> ELSE <<LogHeader(num, Head(seq).cmd)>>
    /\ UNCHANGED << script, portBaud, rxq, stale, devQ, num, baud, fn, rd, sent, steps,
                    staleRead, got, timedOut, glob, plan, wire, faults >>

\* send_and_log: reset_input_buffer, write (lines 117-119)
D_Tx ==
    /\ script = "STBR_delay_1ms" /\ pc = "tx"
    /\ Flush
    /\ sent' = Append(sent, num)
    /\ \E r \in (IF IsStbr(cmd.cmd) THEN RespStbrReopen ELSE RespPlain) : devQ' = r
    /\ fn' = [t_tx |-> clock]
    /\ steps' = <<>>
    /\ pc' = "delay"
    /\ wire' = EnsureNewline(cmd.cmd)
    /\ log' = HeaderOnly(log)
    /\ UNCHANGED << script, clock, quiet, portOpen, portBaud, num, baud, seq, cmd, rd,
                    res, staleRead, timedOut, glob, plan, faults >>

\* send_and_log: sleep(delay); read_until(ser) starts (lines 120-122)
D_Delay ==
    /\ script = "STBR_delay_1ms" /\ pc = "delay"
    /\ Sleep(Ticks(cmd.delay))
    /\ rd' = ReadUntilStart(IdleGapTicks, <<>>, clock')
    /\ pc' = "read"
    /\ log' = HeaderOnly(log)
    /\ UNCHANGED << script, portOpen, portBaud, rxq, stale, devQ, num, baud, seq, cmd,
                    fn, res, sent, steps, staleRead, got, timedOut, glob, plan, wire,
                    faults >>

\* read_until: one pass of the loop, at any of its three call sites
D_Poll ==
    /\ script = "STBR_delay_1ms"
    /\ pc \in {"read", "hs_banner", "hs_prompt"}
    /\ ReadUntilPass
    /\ log' = HeaderOnly(log)
    /\ UNCHANGED << script, portOpen, portBaud, devQ, num, baud, seq, cmd, fn, res,
                    sent, steps, got, timedOut, glob, plan, wire, faults >>

\* send_and_log: t_ok_old, return num + 1; the branches of main() (lines 127-133, 200-209)
D_Logged ==
    /\ script = "STBR_delay_1ms" /\ pc = "done_read"
    /\ res' = [num |-> num, handshake |-> FALSE, error |-> FALSE, data |-> rd.buf,
               start |-> rd.start, T1 |-> None, T2 |-> None]
    /\ num' = num + 1
    /\ rd' = NoRecord
    /\ LET up == Upper(cmd.cmd)
           ok_old == IF IsStbr(cmd.cmd) /\ Contains(rd.buf, OK_CR) /\ rd.t_last # None
                     THEN rd.t_last ELSE glob.t_ok_old
       IN  IF Contains(up, <<"S", "T", "B", "R", "T">>)
           THEN /\ glob' = [glob EXCEPT !.TIMEOUT = ScaleTimeout(FirstDigitWord(cmd.cmd)),
                                        !.t_ok_old = ok_old]
                /\ UNCHANGED << baud, portOpen >>
                /\ pc' = "next"
           ELSE IF Contains(up, <<"S", "T", "B", "R", SP>>)
           THEN /\ glob' = [glob EXCEPT !.STARTING_BAUD = baud, !.t_ok_old = ok_old]
                /\ baud' = FirstDigitWord(cmd.cmd)
                /\ portOpen' = FALSE
                /\ pc' = IF num' < Len(plan) THEN "open" ELSE "done"
           ELSE IF Contains(up, T_STRSTNVM) /\ baud # 9600
           THEN /\ glob' = [glob EXCEPT !.STARTING_BAUD = 9600, !.TIMEOUT = TimeoutTicks,
                                        !.t_ok_old = ok_old]
                /\ baud' = 9600
                /\ portOpen' = FALSE
                /\ pc' = IF num' < Len(plan) THEN "open" ELSE "done"
           ELSE /\ glob' = [glob EXCEPT !.t_ok_old = ok_old]
                /\ UNCHANGED << baud, portOpen >>
                /\ pc' = "next"
    /\ log' = Append(HeaderOnly(log), LogSection(rd.buf))
    /\ UNCHANGED << script, clock, quiet, portBaud, rxq, stale, devQ, seq, cmd, fn,
                    sent, steps, staleRead, got, timedOut, plan, wire, faults >>

\* A fallback that stays at the new speed.
KeepNewBaud(g, b) == b

\* baud = STARTING_BAUD; continue
FallbackBaud(g, b) == g.STARTING_BAUD

\* The banner is taken as received whatever was read.
BannerAssumed(r) == TRUE

\* if BANNER in log_data (line 162)
BannerSeen(r) == Contains(r.buf, BANNER)

\* main(): the banner was read; ACK and the prompt read, or back to the
\* starting speed (lines 160-173, 193-195)
D_AfterBanner ==
    /\ script = "STBR_delay_1ms" /\ pc = "done_hs_banner"
    /\ IF BannerSeen(rd)
       THEN /\ fn' = [t_banner |-> MarkerTime(rd), banner_found |-> rd.t_found,
                      t_ack_tx |-> clock]
            /\ \E r \in RespAck : devQ' = r
            /\ rd' = ReadUntilStart(glob.TIMEOUT, PROMPT, clock)
            /\ steps' = steps \o <<"ACK", "NEW_PROMPT">>
            /\ pc' = "hs_prompt"
            /\ UNCHANGED << baud, portOpen, timedOut >>
       ELSE /\ baud' = FallbackBaud(glob, baud)
            /\ portOpen' = FALSE
            /\ timedOut' = timedOut \cup {num - 1}
            /\ rd' = NoRecord
            /\ pc' = "open"
            /\ UNCHANGED << fn, devQ, steps >>
    /\ wire' = IF BannerSeen(rd) THEN <<CR>> ELSE wire
    /\ log' = IF BannerSeen(rd)
              THEN HeaderOnly(log) \o <<LogSection(rd.buf), LogTitle("ACK")>>
              ELSE Append(HeaderOnly(log), LogSection(rd.buf))
    /\ UNCHANGED << script, clock, quiet, portBaud, rxq, stale, num, seq, cmd, res,
                    sent, staleRead, got, glob, plan, faults >>

\* main(): t_prompt, T1, T2, then the rest of the sequence (lines 174-197)
D_AfterPrompt ==
    /\ script = "STBR_delay_1ms" /\ pc = "done_hs_prompt"
    /\ LET t_prompt == IF Contains(rd.buf, PROMPT) THEN MarkerTime(rd) ELSE None
       IN  /\ res' = [num |-> num - 1, handshake |-> TRUE, error |-> FALSE,
                      data |-> rd.buf, ok_t |-> glob.t_ok_old,
                      banner_t |-> fn.banner_found, prompt_t |-> t_prompt,
                      T1 |-> IF ReportInterval(glob.t_ok_old, fn.t_banner)
                             THEN fn.t_banner - glob.t_ok_old ELSE None,
                      T2 |-> IF ReportInterval(fn.t_ack_tx, t_prompt)
                             THEN t_prompt - fn.t_ack_tx ELSE None]
           /\ timedOut' = IF t_prompt = None THEN timedOut \cup {num - 1} ELSE timedOut
    /\ seq' = Remaining(plan, num)
    /\ rd' = NoRecord
    /\ fn' = NoRecord
    /\ pc' = "next"
    /\ log' = Append(HeaderOnly(log), LogSection(rd.buf))
    /\ UNCHANGED << script, clock, quiet, portOpen, portBaud, rxq, stale, devQ, num,
                    baud, cmd, sent, steps, staleRead, got, glob, plan, wire, faults >>

Next_delay_1ms ==
    \/ D_Open \/ D_Next \/ D_Tx \/ D_Delay \/ D_Poll \/ D_Logged
    \/ D_AfterBanner \/ D_AfterPrompt

\* ------------------------------------------- STSBR_STBRT_9600_delay.py
T_STSBR_9600 == <<"S", "T", "S", "B", "R", SP, "9", "6", "0", "0">>

\* SEQUENCE of STSBR_STBRT_9600_delay.py
SEQUENCE_9600 ==
    << Cmd(T_STRSTNVM, STRSTNVM_DELAY),
       Cmd(T_STBRT_5000, BASE_DELAY),
       Cmd(T_STSBR_9600, 0),
       Cmd(T_STRSTNVM, BASE_DELAY),
       Cmd(T_STI, BASE_DELAY) >>

\* prompt_search_from = p_ok + 2
PromptSearchFrom(p_ok) == p_ok + 2

\* read_stsbr_t1_t2: the locals at entry (lines 93-99)
T1T2Start(deadline) ==
    [buf |-> <<>>, ok_time |-> None, prompt_time |-> None,
     prompt_search_from |-> 0, deadline |-> deadline,
     p_ok |-> None, p_gt |-> None, t_read |-> None]

\* read_stsbr_t1_t2: the loop body on a chunk just read (lines 108-123)
T1T2Chunk(r, chunk, now) ==
    LET b      == r.buf \o chunk
        p_ok   == IF r.ok_time = None THEN Find(b, OK, 0) ELSE None
        okNow  == r.ok_time = None /\ p_ok # None
        ok_t   == IF okNow THEN now ELSE r.ok_time
        from   == IF okNow THEN PromptSearchFrom(p_ok) ELSE r.prompt_search_from
        p_gt   == IF ok_t # None /\ r.prompt_time = None
                  THEN Find(b, <<GT>>, from) ELSE None
    IN  [r EXCEPT !.buf = b,
                  !.t_read = now,
                  !.ok_time = ok_t,
                  !.prompt_search_from = from,
                  !.prompt_time = IF p_gt # None THEN now ELSE r.prompt_time,
                  !.p_ok = IF okNow THEN p_ok ELSE r.p_ok,
                  !.p_gt = IF p_gt # None THEN p_gt ELSE r.p_gt]

\* send_and_log: "STSBR" in cmd.upper()
HasStsbr(text) == Contains(Upper(text), <<"S", "T", "S", "B", "R">>)

\* main(): with Serial(PORT, baudrate=baud, timeout=0) as port
E_Open ==
    /\ script = "STSBR_9600" /\ pc = "open"
    /\ num < Len(plan)
    /\ portOpen' = TRUE /\ portBaud' = baud
    /\ rxq' = <<>> /\ stale' = 0 /\ got' = <<>>
    /\ seq' = Remaining(plan, num)
    /\ pc' = "next"
    /\ log' = HeaderOnly(log)
    /\ UNCHANGED << script, clock, quiet, devQ, num, baud, cmd, fn, rd, res, sent,
                    steps, staleRead, timedOut, glob, plan, wire, faults >>

\* main(): for cmd, delay in seq; send_and_log up to sleep(0.05)
E_Next ==
    /\ script = "STSBR_9600" /\ pc = "next"
    /\ IF seq = <<>>
       THEN /\ pc' = "done"
            /\ portOpen' = FALSE
            /\ UNCHANGED << seq, cmd, clock, quiet >>
       ELSE /\ cmd' = Head(seq)
            /\ seq' = Tail(seq)
            /\ clock' = 1
            /\ quiet' = Min(quiet + 1, QuietCap)
            /\ pc' = "tx"
            /\ UNCHANGED portOpen
    /\ res' = NoRecord
    /\ log' = IF seq = <<>> THEN <<>> ELSE <<LogHeader(num, Head(seq).cmd)>>
    /\ UNCHANGED << script, portBaud, rxq, stale, devQ, num, baud, fn, rd, sent, steps,
                    staleRead, got, timedOut, glob, plan, wire, faults >>

\* send_and_log: reset_input_buffer, t_tx, write, and the branch taken (lines 139-151)
E_Tx ==
    /\ script = "STSBR_9600" /\ pc = "tx"
    /\ Flush
    /\ sent' = Append(sent, num)
    /\ \E r \in (IF HasStsbr(cmd.cmd) THEN RespStsbr ELSE RespPlain) : devQ' = r
    /\ fn' = [t_tx |-> clock]
    /\ IF HasStsbr(cmd.cmd)
       THEN /\ rd' = T1T2Start(clock + StsbrTimeoutTicks)
            /\ steps' = <<"OK", "PROMPT">>
            /\ pc' = "t1t2"
       ELSE /\ rd' = NoRecord
            /\ steps' = <<>>
            /\ pc' = "delay"
    /\ wire' = AppendNewline(cmd.cmd)
    /\ log' = HeaderOnly(log)
    /\ UNCHANGED << script, clock, quiet, portOpen, portBaud, num, baud, seq, cmd, res,
                    staleRead, timedOut, glob, plan, faults >>

\* send_and_log: sleep(delay), then read_until starts (lines 175-176)
E_Delay ==
    /\ script = "STSBR_9600" /\ pc = "delay"
    /\ Sleep(Ticks(cmd.delay))
    /\ rd' = [buf |-> <<>>, last_rx |-> clock', start |-> clock']
    /\ pc' = "idle"
    /\ log' = HeaderOnly(log)
    /\ UNCHANGED << script, portOpen, portBaud, rxq, stale, devQ, num, baud, seq, cmd,
                    fn, res, sent, steps, staleRead, got, timedOut, glob, plan, wire,
                    faults >>

\* read_until without a command: one pass of the loop (lines 63-73)
E_Idle ==
    /\ script = "STSBR_9600" /\ pc = "idle"
    /\ IF rxq # <<>>
       THEN /\ rd' = [rd EXCEPT !.buf = rd.buf \o rxq, !.last_rx = clock]
            /\ ReadAll
            /\ NoSleep
            /\ UNCHANGED pc
       ELSE IF IdleElapsed(clock, rd.last_rx, IdleGapTicks)
            THEN /\ pc' = "logged"
                 /\ NoRead /\ NoSleep
                 /\ UNCHANGED rd
            ELSE /\ Sleep(1)
                 /\ NoRead
                 /\ UNCHANGED << rd, pc >>
    /\ log' = HeaderOnly(log)
    /\ UNCHANGED << script, portOpen, portBaud, devQ, num, baud, seq, cmd, fn, res,
                    sent, steps, got, timedOut, glob, plan, wire, faults >>

\* send_and_log: write_log_section, return num + 1 (lines 181-182)
E_Logged ==
    /\ script = "STSBR_9600" /\ pc = "logged"
    /\ res' = [num |-> num, handshake |-> FALSE, error |-> FALSE, data |-> rd.buf,
               start |-> rd.start, T1 |-> None, T2 |-> None]
    /\ num' = num + 1
    /\ rd' = NoRecord
    /\ pc' = "next"
    /\ log' = Append(HeaderOnly(log), LogSection(rd.buf))
    /\ UNCHANGED << script, clock, quiet, portOpen, portBaud, rxq, stale, devQ, baud,
                    seq, cmd, fn, sent, steps, staleRead, got, timedOut, glob, plan,
                    wire, faults >>

\* read_stsbr_t1_t2: one pass of the loop (lines 101-127)
E_T1T2 ==
    /\ script = "STSBR_9600" /\ pc = "t1t2"
    /\ IF clock >= rd.deadline
       THEN /\ pc' = "return"
            /\ NoRead /\ NoSleep
            /\ UNCHANGED rd
       ELSE IF rxq # <<>>
            THEN /\ rd' = T1T2Chunk(rd, rxq, clock)
                 /\ ReadAll
                 /\ NoSleep
                 /\ pc' = IF rd'.prompt_time # None THEN "return" ELSE pc
            ELSE /\ Sleep(1)
                 /\ NoRead
                 /\ UNCHANGED << rd, pc >>
    /\ log' = HeaderOnly(log)
    /\ UNCHANGED << script, portOpen, portBaud, devQ, num, baud, seq, cmd, fn, res,
                    sent, steps, got, timedOut, glob, plan, wire, faults >>

\* send_and_log: the T1 and T2 log lines, return num + 1 (lines 153-172)
E_Return ==
    /\ script = "STSBR_9600" /\ pc = "return"
    /\ res' = [num |-> num, handshake |-> TRUE, error |-> FALSE, data |-> rd.buf,
               t_tx |-> fn.t_tx, ok_t |-> rd.ok_time, prompt_t |-> rd.prompt_time,
               T1 |-> IF rd.ok_time # None THEN rd.ok_time - fn.t_tx ELSE None,
               T2 |-> IF ReportInterval(rd.ok_time, rd.prompt_time)
                      THEN rd.prompt_time - rd.ok_time ELSE None]
    /\ num' = num + 1
    /\ timedOut' = IF rd.prompt_time = None THEN timedOut \cup {num} ELSE timedOut
    /\ rd' = NoRecord
    /\ pc' = "next"
    /\ log' = Append(HeaderOnly(log), LogSection(rd.buf))
    /\ UNCHANGED << script, clock, quiet, portOpen, portBaud, rxq, stale, devQ, baud,
                    seq, cmd, fn, sent, steps, staleRead, got, glob, plan, wire,
                    faults >>

Next_9600 ==
    \/ E_Open \/ E_Next \/ E_Tx \/ E_Delay \/ E_Idle \/ E_Logged
    \/ E_T1T2 \/ E_Return

\* ------------------------------------------------------------- STPX.py
BASE_WAIT_SEC == 2
WAIT_AFTER_STRSTNVM == 3

\* SEQUENCE of STPX.py
SEQUENCE_STPX ==
    << Cmd(<<"S", "T", "R", "S", "T", "N", "V", "M">>, WAIT_AFTER_STRSTNVM),
       Cmd(<<"0", "9", "0", "2">>, 7),
       Cmd(<<"S", "T", "P", "X", SP, "H", ":", "7", "E", "8", ",", SP, "D", ":", "0", "9", "0", "2">>, BASE_WAIT_SEC),
       Cmd(<<"S", "T", "P", "X", SP, "H", ":", "7", "E", "8", ",", SP, "L", ":", "2">>, BASE_WAIT_SEC),
       Cmd(<<"0", "9", "0", "2">>, BASE_WAIT_SEC),
       Cmd(<<"S", "T", "P", "X", SP, "D", ":", "0", "9", "0", "2">>, BASE_WAIT_SEC),
       Cmd(<<"S", "T", "P", "X", SP, "H", ":", "7", "7", "7", ",", SP, "D", ":", "0", "9", "0", "2">>, BASE_WAIT_SEC),
       Cmd(<<"S", "T", "P", "X">>, BASE_WAIT_SEC),
       Cmd(<<"S", "T", "P", "X", SP, "0", ",", SP, "L", ":", "2">>, BASE_WAIT_SEC),
       Cmd(<<"S", "T", "P", "X", SP, "H", ":", "7", "7", "7", ",", SP, "L", ":", "2">>, BASE_WAIT_SEC),
       Cmd(<<"0", "9", "0", "2">>, BASE_WAIT_SEC),
       Cmd(<<"S", "T", "P", "X", SP, "H", ":", ",", SP, "L", ":", "2">>, BASE_WAIT_SEC),
       Cmd(<<"S", "T", "P", "X", SP, ":", ":", ",", SP, "L", ":", "2">>, BASE_WAIT_SEC) >>

\* main(): port = open_port(PORT, BAUD)
H_Open ==
    /\ script = "STPX" /\ pc = "open"
    /\ portOpen' = TRUE /\ portBaud' = baud
    /\ rxq' = <<>> /\ stale' = 0 /\ got' = <<>>
    /\ seq' = plan
    /\ pc' = "next"
    /\ log' = HeaderOnly(log)
    /\ UNCHANGED << script, clock, quiet, devQ, num, baud, cmd, fn, rd, res, sent,
                    steps, staleRead, timedOut, glob, plan, wire, faults >>

\* main(): for idx, (cmd, delay) in enumerate(SEQUENCE); port.close() at the end
H_Next ==
    /\ script = "STPX" /\ pc = "next"
    /\ IF seq = <<>>
       THEN /\ pc' = "done"
            /\ portOpen' = FALSE
            /\ UNCHANGED << seq, cmd >>
       ELSE /\ cmd' = Head(seq)
            /\ seq' = Tail(seq)
            /\ pc' = "drain"
            /\ UNCHANGED portOpen
    /\ clock' = 0
    /\ res' = NoRecord
    /\ log' = IF seq = <<>> THEN <<>>
              ELSE << [k |-> "header", num |-> num, visible |-> Head(seq).cmd] >>
    /\ UNCHANGED << script, quiet, portBaud, rxq, stale, devQ, num, baud, fn, rd, sent,
                    steps, staleRead, got, timedOut, glob, plan, wire, faults >>

\* drain: one pass of while ser.in_waiting (lines 59-61)
H_Drain ==
    /\ script = "STPX" /\ pc = "drain"
    /\ IF rxq # <<>>
       THEN /\ rxq' = <<>>
            /\ stale' = 0
            /\ UNCHANGED pc
       ELSE /\ pc' = "tx"
            /\ UNCHANGED << rxq, stale >>
    /\ got' = <<>>
    /\ log' = HeaderOnly(log)
    /\ UNCHANGED << script, clock, quiet, portOpen, portBaud, devQ, num, baud, seq, cmd,
                    fn, rd, res, sent, steps, staleRead, timedOut, glob, plan, wire,
                    faults >>

\* main(): port.write(cmd_b + TX_NEWLINE) (line 107)
H_Tx ==
    /\ script = "STPX" /\ pc = "tx"
    /\ sent' = Append(sent, num)
    /\ \E r \in RespPlain : devQ' = r
    /\ fn' = [t_tx |-> clock]
    /\ pc' = "delay"
    /\ wire' = AppendNewline(cmd.cmd)
    /\ log' = HeaderOnly(log)
    /\ UNCHANGED << script, clock, quiet, portOpen, portBaud, rxq, stale, num, baud,
                    seq, cmd, rd, res, steps, staleRead, got, timedOut, glob, plan,
                    faults >>

\* main(): time.sleep(delay); read_until_quiet starts (lines 64-65, 108)
H_Delay ==
    /\ script = "STPX" /\ pc = "delay"
    /\ Sleep(Ticks(cmd.delay))
    /\ rd' = [buf |-> <<>>, last_rx |-> clock', start |-> clock']
    /\ pc' = "quiet"
    /\ log' = HeaderOnly(log)
    /\ UNCHANGED << script, portOpen, portBaud, rxq, stale, devQ, num, baud, seq, cmd,
                    fn, res, sent, steps, staleRead, got, timedOut, glob, plan, wire,
                    faults >>

\* read_until_quiet: one pass of the loop (lines 66-75)
H_Quiet ==
    /\ script = "STPX" /\ pc = "quiet"
    /\ IF rxq # <<>>
       THEN /\ rd' = [rd EXCEPT !.buf = rd.buf \o rxq, !.last_rx = clock]
            /\ ReadAll
            /\ Sleep(1)
            /\ UNCHANGED pc
       ELSE IF IdleElapsed(clock, rd.last_rx, IdleGapTicks)
            THEN /\ pc' = "logged"
                 /\ NoRead /\ NoSleep
                 /\ UNCHANGED rd
            ELSE /\ Sleep(1)
                 /\ NoRead
                 /\ UNCHANGED << rd, pc >>
    /\ log' = HeaderOnly(log)
    /\ UNCHANGED << script, portOpen, portBaud, devQ, num, baud, seq, cmd, fn, res,
                    sent, steps, got, timedOut, glob, plan, wire, faults >>

\* main(): the log lines of one command (lines 113-115)
H_Logged ==
    /\ script = "STPX" /\ pc = "logged"
    /\ res' = [num |-> num, handshake |-> FALSE, error |-> FALSE, data |-> rd.buf,
               start |-> rd.start, T1 |-> None, T2 |-> None]
    /\ num' = num + 1
    /\ rd' = NoRecord
    /\ pc' = "next"
    /\ log' = Append(HeaderOnly(log), [k |-> "section", len |-> Len(rd.buf),
                             visible |-> visible_bytes(Bytes(rd.buf)),
                             hex |-> hex_bytes(Bytes(rd.buf))])
    /\ UNCHANGED << script, clock, quiet, portOpen, portBaud, rxq, stale, devQ, baud,
                    seq, cmd, fn, sent, steps, staleRead, got, timedOut, glob, plan,
                    wire, faults >>

Next_STPX ==
    \/ H_Open \/ H_Next \/ H_Drain \/ H_Tx \/ H_Delay \/ H_Quiet \/ H_Logged

\* ----------------------------------- STRSTNVM_delay.py, ATD_delay.py
PAT_OK == <<"O", "K", CR>>
PAT_BANNER == <<CR, CR, "E", "L", "M", "3", "2", "7", SP, "v", "1", ".", "4", "b",
                CR, CR, GT>>
PAT_PROMPT == <<GT>>

\* STRSTNVM_delay.py main(): the locals before the loop (lines 65-71)
StrstnvmStart ==
    [rx_bytes |-> <<>>, rx_times |-> <<>>, ok_end_idx |-> None,
     banner_start_idx |-> None, t1 |-> None]

\* STRSTNVM_delay.py main(): the loop body on a chunk just read (lines 76-92)
StrstnvmChunk(r, chunk, now) ==
    LET b       == r.rx_bytes \o chunk
        times   == r.rx_times \o [i \in 1..Len(chunk) |-> now]
        pos_ok  == IF r.ok_end_idx = None THEN Find(b, PAT_OK, 0) ELSE None
        ok_end  == IF r.ok_end_idx = None /\ pos_ok # None
                   THEN pos_ok + Len(PAT_OK) - 1 ELSE r.ok_end_idx
        pos_bn  == IF ok_end # None /\ r.banner_start_idx = None
                   THEN Find(b, PAT_BANNER, ok_end + 1) ELSE None
    IN  [r EXCEPT !.rx_bytes = b,
                  !.rx_times = times,
                  !.ok_end_idx = ok_end,
                  !.banner_start_idx = IF pos_bn # None THEN pos_bn
                                       ELSE r.banner_start_idx,
                  !.t1 = IF pos_bn # None
                         THEN times[pos_bn + 1] - times[ok_end + 1] ELSE r.t1]

\* ATD_delay.py main(): the locals before the loop (lines 71-80)
AtdStart(t_tx) ==
    [rx_bytes |-> <<>>, rx_times |-> <<>>, prompt_idx |-> None, t1 |-> None,
     t_tx |-> t_tx]

\* ATD_delay.py main(): the loop body on a chunk just read (lines 85-97)
AtdChunk(r, chunk, now) ==
    LET b     == r.rx_bytes \o chunk
        times == r.rx_times \o [i \in 1..Len(chunk) |-> now]
        pos   == Find(b, PAT_PROMPT, 0)
    IN  [r EXCEPT !.rx_bytes = b,
                  !.rx_times = times,
                  !.prompt_idx = IF pos # None THEN pos ELSE r.prompt_idx,
                  !.t1 = IF pos # None THEN times[pos + 1] - r.t_tx ELSE r.t1]

\* ATWS_delay.py: PAT_FIRST_CR
PAT_FIRST_CR == <<CR>>

\* ATWS_delay.py main(): the locals before the loop (lines 70-78)
AtwsStart(t_tx) ==
    [rx_bytes |-> <<>>, rx_times |-> <<>>, first_cr_idx |-> None, t1 |-> None,
     t_tx |-> t_tx]

\* ATWS_delay.py main(): the loop body on a chunk just read (lines 83-95)
AtwsChunk(r, chunk, now) ==
    LET b     == r.rx_bytes \o chunk
        times == r.rx_times \o [i \in 1..Len(chunk) |-> now]
        pos   == Find(b, PAT_FIRST_CR, 0)
    IN  [r EXCEPT !.rx_bytes = b,
                  !.rx_times = times,
                  !.first_cr_idx = IF pos # None THEN pos ELSE r.first_cr_idx,
                  !.t1 = IF pos # None THEN times[pos + 1] - r.t_tx ELSE r.t1]

\* --------------------------------------------------------- the readers
\* The readers fed one response stream, chunk by chunk, next to the same
\* reader fed the whole stream by one read.  clock counts the bytes read.
Alphabet == {"O", "K", CR, GT}

\* The responses over the marker bytes, up to MaxStream bytes long.
Streams == UNION { [1..n -> Alphabet] : n \in 0..MaxStream }

Tokens == { PAT_OK, PAT_BANNER, <<CR>> }

RECURSIVE Flatten(_)
Flatten(ss) == IF ss = <<>> THEN <<>> ELSE Head(ss) \o Flatten(Tail(ss))

\* The responses made of up to MaxTokens whole markers.
TokenStreams == { Flatten(ts) : ts \in UNION { [1..n -> Tokens] : n \in 0..MaxTokens } }

PromptTokens == { <<"O", "K", CR, CR>>, PROMPT, <<GT>> }

PromptStreams ==
    { Flatten(ts) : ts \in UNION { [1..n -> PromptTokens] : n \in 0..MaxTokens } }

Readers == { "switch", "t1_t2", "strstnvm", "read_until", "atd", "atws" }

ReaderStreams(kind) ==
    IF kind = "strstnvm" THEN TokenStreams
    ELSE IF kind \in {"read_until", "atws"} THEN PromptStreams
    ELSE Streams

ReaderStart(kind) ==
    IF kind = "switch" THEN SwitchReaderStart(None)
    ELSE IF kind = "t1_t2" THEN T1T2Start(None)
    ELSE IF kind = "strstnvm" THEN StrstnvmStart
    ELSE IF kind = "read_until" THEN ReadUntilStart(None, PROMPT, 0)
    ELSE IF kind = "atws" THEN AtwsStart(0)
    ELSE AtdStart(0)

\* The reader has left its loop through a break.
ReaderDone(kind, r) ==
    IF kind = "switch" THEN r.prompt_time # None
    ELSE IF kind = "t1_t2" THEN r.prompt_time # None
    ELSE IF kind = "strstnvm" THEN r.banner_start_idx # None
    ELSE IF kind = "read_until" THEN r.t_found # None
    ELSE IF kind = "atws" THEN r.first_cr_idx # None
    ELSE r.prompt_idx # None

\* The reader's loop body on one chunk.
ReaderChunk(kind, r, chunk, now) ==
    IF kind = "switch"
    THEN (IF r.cr1_time = None THEN Phase1Chunk(r, chunk, now)
          ELSE Phase2Chunk(r, chunk, now))
    ELSE IF kind = "t1_t2" THEN T1T2Chunk(r, chunk, now)
    ELSE IF kind = "strstnvm" THEN StrstnvmChunk(r, chunk, now)
    ELSE IF kind = "read_until" THEN ReadUntilChunk(r, chunk, now)
    ELSE IF kind = "atws" THEN AtwsChunk(r, chunk, now)
    ELSE AtdChunk(r, chunk, now)

\* The markers a reader has detected, with the offsets it holds for them.
Markers(kind, r) ==
    IF kind = "switch"
    THEN [ok |-> r.p_ok, cr |-> r.p_cr, prompt |-> r.prompt_time # None]
    ELSE IF kind = "t1_t2" THEN [ok |-> r.p_ok, prompt |-> r.p_gt]
    ELSE IF kind = "strstnvm"
    THEN [ok_end |-> r.ok_end_idx, banner |-> r.banner_start_idx]
    ELSE IF kind = "read_until" THEN [found |-> r.t_found # None]
    ELSE IF kind = "atws" THEN [first_cr |-> r.first_cr_idx]
    ELSE [prompt |-> r.prompt_idx]

\* How far the system clock is set back when it is.
MaxSetBack == 3

\* t_now = time.time() in the three single-command timing scripts, and
\* ok_time = time(), cr1_time = time(), prompt_time = time() in the two STSBR
\* timing readers: the wall clock, which returns a lower value than an earlier
\* call when the system clock was set back in between.  The amounts by which
\* the clock may be behind the elapsed time at read number n: one adjustment
\* is modelled, between the first read and the second, and the clock stays
\* at or above its value at the start.  read_until stamps with monotonic()
\* and is fed the elapsed time.
SetBacks(kind, behind, n) ==
    IF kind \in {"strstnvm", "atd", "atws", "switch", "t1_t2"} /\ n = 1
    THEN {behind, MaxSetBack}
    ELSE {behind}

\* One ser.read(n): the reader takes the next k bytes of the response.
Feed(kind) ==
    /\ script = "readers" /\ pc = kind
    /\ rxq # <<>>
    /\ ~ReaderDone(kind, rd)
    /\ \E k \in 1..Len(rxq) :
         /\ IF fn.bytewise THEN k = 1
            ELSE num + 1 < MaxChunks \/ k = Len(rxq)
         /\ \E behind \in SetBacks(kind, fn.behind, num) :
              /\ clock + k - behind >= 0
              /\ rd' = ReaderChunk(kind, rd, SubSeq(rxq, 1, k), clock + k - behind)
              /\ fn' = [fn EXCEPT !.behind = behind]
         /\ rxq' = SubSeq(rxq, k + 1, Len(rxq))
         /\ clock' = clock + k
    /\ num' = num + 1
    /\ UNCHANGED << script, pc, quiet, portOpen, portBaud, stale, devQ, baud, seq, cmd,
                    res, sent, steps, staleRead, got, timedOut, glob, plan, wire, log,
                    faults >>

Feed_switch == Feed("switch")
Feed_t1_t2 == Feed("t1_t2")
Feed_strstnvm == Feed("strstnvm")
Feed_read_until == Feed("read_until")
Feed_atd == Feed("atd")
Feed_atws == Feed("atws")

InitReaders ==
    /\ script = "readers"
    /\ pc \in Readers
    /\ rxq \in ReaderStreams(pc)
    /\ got = rxq
    /\ rd = ReaderStart(pc)
    /\ res = IF rxq = <<>> THEN ReaderStart(pc)
             ELSE ReaderChunk(pc, ReaderStart(pc), rxq, Len(rxq))
    /\ fn \in { [bytewise |-> b, behind |-> 0] : b \in BOOLEAN }
    /\ clock = 0
    /\ quiet = 0
    /\ portOpen = TRUE
    /\ portBaud = STARTING_BAUD
    /\ stale = 0
    /\ devQ = <<>>
    /\ num = 0
    /\ baud = STARTING_BAUD
    /\ seq = <<>>
    /\ cmd = NoRecord
    /\ sent = <<>>
    /\ steps = <<>>
    /\ staleRead = 0
    /\ timedOut = {}
    /\ glob = NoRecord
    /\ plan = <<>>
    /\ wire = <<>>
    /\ log = <<>>
    /\ faults = 0

NextReaders ==
    \/ Feed_switch \/ Feed_t1_t2 \/ Feed_strstnvm \/ Feed_read_until \/ Feed_atd
    \/ Feed_atws

SpecReaders == InitReaders /\ [][NextReaders]_vars

\* ------------------------------------------------- the writers of the log
\* The renderers and the interval reports, each applied to inputs drawn from
\* bounded sets: rd holds the arguments, res what is written to the log.
MaxBytes == 3

\* Byte values on both sides of every test of the renderers.
RenderBytes == {0, 9, 10, 11, 13, 32, 33, 65, 126, 127, 255}

ByteStrings == UNION { [1..n -> RenderBytes] : n \in 0..MaxBytes }

\* Times in microseconds.
Stamps == {10000, 45000, 100000000, 100123456}

Writers ==
    {"make_visible", "visible_bytes", "visible_bytes_STRSTNVM", "send_and_log",
     "stbr_fast_switch", "read_until"}

WriterInputs(kind) ==
    IF kind = "send_and_log"
    THEN { [t_tx |-> a, ok_t |-> b, prompt_t |-> c] :
             a \in Stamps, b \in Stamps \cup {None}, c \in Stamps \cup {None} }
    ELSE IF kind = "stbr_fast_switch"
    THEN { [t_ok_time |-> a, t_banner_time |-> b, t_prompt_time |-> c] :
             a \in Stamps \cup {None}, b \in Stamps \cup {None}, c \in Stamps \cup {None} }
    ELSE IF kind = "read_until"
    THEN { [data |-> d, zero |-> z] : d \in ByteStrings, z \in ZeroTokens }
    ELSE { [data |-> d] : d \in ByteStrings }

Ordered(ts) ==
    \A i, j \in 1..Len(ts) : (i < j /\ ts[i] # None /\ ts[j] # None) => ts[i] <= ts[j]

Write_make_visible ==
    /\ script = "writers" /\ pc = "make_visible"
    /\ res' = [visible |-> make_visible(rd.data), hex |-> hex_bytes(rd.data),
               len |-> Len(rd.data)]
    /\ pc' = "written"
    /\ UNCHANGED << script, clock, quiet, portOpen, portBaud, rxq, stale, devQ, num,
                    baud, seq, cmd, fn, rd, sent, steps, staleRead, got, timedOut, glob,
                    plan, wire, log, faults >>

Write_visible_bytes ==
    /\ script = "writers" /\ pc = "visible_bytes"
    /\ res' = [visible |-> visible_bytes(rd.data), hex |-> hex_bytes(rd.data),
               len |-> Len(rd.data)]
    /\ pc' = "written"
    /\ UNCHANGED << script, clock, quiet, portOpen, portBaud, rxq, stale, devQ, num,
                    baud, seq, cmd, fn, rd, sent, steps, staleRead, got, timedOut, glob,
                    plan, wire, log, faults >>

Write_visible_bytes_STRSTNVM ==
    /\ script = "writers" /\ pc = "visible_bytes_STRSTNVM"
    /\ res' = [visible |-> visible_bytes_STRSTNVM(rd.data), hex |-> hex_bytes(rd.data),
               len |-> Len(rd.data)]
    /\ pc' = "written"
    /\ UNCHANGED << script, clock, quiet, portOpen, portBaud, rxq, stale, devQ, num,
                    baud, seq, cmd, fn, rd, sent, steps, staleRead, got, timedOut, glob,
                    plan, wire, log, faults >>

\* send_and_log of the two STSBR timing scripts: the T1 and T2 lines, <<>> for
\* a line that is not written
Write_send_and_log ==
    /\ script = "writers" /\ pc = "send_and_log"
    /\ res' = [T1 |-> IF rd.ok_t # None
                      THEN MsText(Interval(rd.t_tx, rd.ok_t)) ELSE <<>>,
               T2 |-> IF rd.ok_t # None /\ rd.prompt_t # None
                      THEN MsText(Interval(rd.ok_t, rd.prompt_t)) ELSE <<>>]
    /\ pc' = "written"
    /\ UNCHANGED << script, clock, quiet, portOpen, portBaud, rxq, stale, devQ, num,
                    baud, seq, cmd, fn, rd, sent, steps, staleRead, got, timedOut, glob,
                    plan, wire, log, faults >>

\* stbr_fast_switch: the T1 and T2 lines
Write_stbr_fast_switch ==
    /\ script = "writers" /\ pc = "stbr_fast_switch"
    /\ res' = [T1 |-> IF rd.t_ok_time # None /\ rd.t_banner_time # None
                      THEN MsText(Interval(rd.t_ok_time, rd.t_banner_time)) ELSE <<>>,
               T2 |-> IF rd.t_banner_time # None /\ rd.t_prompt_time # None
                      THEN MsText(Interval(rd.t_banner_time, rd.t_prompt_time)) ELSE <<>>]
    /\ pc' = "written"
    /\ UNCHANGED << script, clock, quiet, portOpen, portBaud, rxq, stale, devQ, num,
                    baud, seq, cmd, fn, rd, sent, steps, staleRead, got, timedOut, glob,
                    plan, wire, log, faults >>

\* read_until: log_data = bytes(buf), hex_bytes (STSBR_STBRT.py lines 50-53,
\* STBR_def_tim.py lines 87-88)
Write_read_until ==
    /\ script = "writers" /\ pc = "read_until"
    /\ res' = [hex |-> hex_bytes_read_until(rd.data, rd.zero), len |-> Len(rd.data)]
    /\ pc' = "written"
    /\ UNCHANGED << script, clock, quiet, portOpen, portBaud, rxq, stale, devQ, num,
                    baud, seq, cmd, fn, rd, sent, steps, staleRead, got, timedOut, glob,
                    plan, wire, log, faults >>

InitWriters ==
    /\ script = "writers"
    /\ pc \in Writers
    /\ rd \in WriterInputs(pc)
    /\ pc = "send_and_log" => Ordered(<<rd.t_tx, rd.ok_t, rd.prompt_t>>)
    /\ pc = "stbr_fast_switch" => Ordered(<<rd.t_ok_time, rd.t_banner_time, rd.t_prompt_time>>)
    /\ fn = [kind |-> pc]
    /\ res = NoRecord
    /\ rxq = <<>>
    /\ got = <<>>
    /\ clock = 0
    /\ quiet = 0
    /\ portOpen = FALSE
    /\ portBaud = STARTING_BAUD
    /\ stale = 0
    /\ devQ = <<>>
    /\ num = 0
    /\ baud = STARTING_BAUD
    /\ seq = <<>>
    /\ cmd = NoRecord
    /\ sent = <<>>
    /\ steps = <<>>
    /\ staleRead = 0
    /\ timedOut = {}
    /\ glob = NoRecord
    /\ plan = <<>>
    /\ wire = <<>>
    /\ log = <<>>
    /\ faults = 0

NextWriters ==
    \/ Write_make_visible \/ Write_visible_bytes \/ Write_visible_bytes_STRSTNVM
    \/ Write_send_and_log \/ Write_stbr_fast_switch \/ Write_read_until

SpecWriters == InitWriters /\ [][NextWriters]_vars

\* ------------------------------------------------------- STSBR_STBRT.py
T_STBRT_15000 == <<"S", "T", "B", "R", "T", SP, "1", "5", "0", "0", "0">>

\* SEQUENCE of STSBR_STBRT.py
SEQUENCE_STSBR_STBRT ==
    << Cmd(T_STRSTNVM, STRSTNVM_DELAY),
       Cmd(T_STBRT_15000, BASE_DELAY),
       Cmd(T_STSBR_115200, 0),
       Cmd(T_STI, BASE_DELAY),
       Cmd(T_STRSTNVM, BASE_DELAY),
       Cmd(T_STI, BASE_DELAY) >>

\* COMMAND_TO_RECEIVE
COMMAND_TO_RECEIVE == <<GT>>

\* main(): with Serial(PORT, baudrate=baud, timeout=0) as port; the read
\* for COMMAND_TO_RECEIVE when the speed has changed (lines 115-117, 126)
S_Open ==
    /\ script = "STSBR_STBRT" /\ pc = "open"
    /\ num < Len(plan)
    /\ portOpen' = TRUE /\ portBaud' = baud
    /\ rxq' = <<>> /\ stale' = 0 /\ got' = <<>>
    /\ IF glob.STARTING_BAUD # baud
       THEN /\ rd' = ReadUntilStart_ATI_CR(glob.TIMEOUT, COMMAND_TO_RECEIVE, clock)
            /\ steps' = <<"REOPEN_NEW", "NEW_PROMPT">>
            /\ pc' = "open_read"
            /\ UNCHANGED seq
       ELSE /\ seq' = Remaining(plan, num)
            /\ pc' = "next"
            /\ UNCHANGED << rd, steps >>
    /\ log' = HeaderOnly(log)
    /\ UNCHANGED << script, clock, quiet, devQ, num, baud, cmd, fn, res, sent,
                    staleRead, timedOut, glob, plan, wire, faults >>

\* main(): the read after the reopen has returned; the rest of the
\* sequence, or back to the starting speed (lines 118-126)
S_AfterOpenRead ==
    /\ script = "STSBR_STBRT" /\ pc = "done_open_read"
    /\ IF Contains(rd.buf, COMMAND_TO_RECEIVE)
       THEN /\ seq' = Remaining(plan, num)
            /\ pc' = "next"
            /\ UNCHANGED << baud, portOpen, timedOut >>
       ELSE /\ baud' = FallbackBaud(glob, baud)
            /\ portOpen' = FALSE
            /\ timedOut' = timedOut \cup {num - 1}
            /\ pc' = "open"
            /\ UNCHANGED seq
    /\ res' = [num |-> num - 1, handshake |-> TRUE, error |-> FALSE, data |-> rd.buf,
               start |-> rd.start, T1 |-> None, T2 |-> None]
    /\ rd' = NoRecord
    /\ log' = Append(HeaderOnly(log), LogSection(rd.buf))
    /\ UNCHANGED << script, clock, quiet, portBaud, rxq, stale, devQ, num, cmd, fn,
                    sent, steps, staleRead, got, glob, plan, wire, faults >>

\* main(): for cmd, delay in seq; send_and_log up to sleep(0.05) (lines 76-84, 127)
S_Next ==
    /\ script = "STSBR_STBRT" /\ pc = "next"
    /\ IF seq = <<>>
       THEN /\ pc' = "done"
            /\ portOpen' = FALSE
            /\ UNCHANGED << seq, cmd, clock, quiet >>
       ELSE /\ cmd' = Head(seq)
            /\ seq' = Tail(seq)
            /\ clock' = 1
            /\ quiet' = Min(quiet + 1, QuietCap)
            /\ pc' = "tx"
            /\ UNCHANGED portOpen
    /\ res' = NoRecord
    /\ log' = IF seq = <<>> THEN <<>> ELSE <<LogHeader(num, Head(seq).cmd)>>
    /\ UNCHANGED << script, portBaud, rxq, stale, devQ, num, baud, fn, rd, sent, steps,
                    staleRead, got, timedOut, glob, plan, wire, faults >>

\* send_and_log: cmd += TX_NEWLINE, reset_input_buffer, write (lines 80-87)
S_Tx ==
    /\ script = "STSBR_STBRT" /\ pc = "tx"
    /\ Flush
    /\ sent' = Append(sent, num)
    /\ \E r \in (IF IsStsbrSp(cmd.cmd) THEN RespStsbrIdle ELSE RespPlain) : devQ' = r
    /\ fn' = [t_tx |-> clock]
    /\ steps' = <<>>
    /\ pc' = "delay"
    /\ wire' = AppendNewline(cmd.cmd)
    /\ log' = HeaderOnly(log)
    /\ UNCHANGED << script, clock, quiet, portOpen, portBaud, num, baud, seq, cmd, rd,
                    res, staleRead, timedOut, glob, plan, faults >>

\* send_and_log: sleep(delay); read_until(ser) starts (lines 88-90)
S_Delay ==
    /\ script = "STSBR_STBRT" /\ pc = "delay"
    /\ Sleep(Ticks(cmd.delay))
    /\ rd' = ReadUntilStart_ATI_CR(IdleGapTicks, <<>>, clock')
    /\ pc' = "read"
    /\ log' = HeaderOnly(log)
    /\ UNCHANGED << script, portOpen, portBaud, rxq, stale, devQ, num, baud, seq, cmd,
                    fn, res, sent, steps, staleRead, got, timedOut, glob, plan, wire,
                    faults >>

\* read_until: one pass of the loop, at either call site (lines 39-49)
S_Poll ==
    /\ script = "STSBR_STBRT"
    /\ pc \in {"read", "open_read"}
    /\ ReadUntilPass_ATI_CR
    /\ log' = HeaderOnly(log)
    /\ UNCHANGED << script, portOpen, portBaud, devQ, num, baud, seq, cmd, fn, res,
                    sent, steps, got, timedOut, glob, plan, wire, faults >>

\* send_and_log: write_log_section, return num + 1; the branches of
\* main() (lines 95-97, 128-138). An IndexError of the digit lookup leaves
\* the with block and is caught by main's except (lines 140-142).
S_Logged ==
    /\ script = "STSBR_STBRT" /\ pc = "done_read"
    /\ res' = [num |-> num, handshake |-> FALSE, error |-> FALSE, data |-> rd.buf,
               start |-> rd.start, T1 |-> None, T2 |-> None]
    /\ num' = num + 1
    /\ rd' = NoRecord
    /\ LET up == Upper(cmd.cmd)
       IN  IF Contains(up, <<"S", "T", "B", "R", "T">>)
           THEN IF FirstDigitWord(cmd.cmd) = None
                THEN /\ pc' = "failed"
                     /\ portOpen' = FALSE
                     /\ UNCHANGED << glob, baud >>
                ELSE /\ glob' = [glob EXCEPT
                                   !.TIMEOUT = ScaleTimeout(FirstDigitWord(cmd.cmd))]
                     /\ UNCHANGED << baud, portOpen >>
                     /\ pc' = "next"
           ELSE IF Contains(up, <<"S", "T", "S", "B", "R", SP>>)
           THEN /\ glob' = [glob EXCEPT !.STARTING_BAUD = baud]
                /\ portOpen' = FALSE
                /\ IF FirstDigitWord(cmd.cmd) = None
                   THEN pc' = "failed" /\ UNCHANGED baud
                   ELSE /\ baud' = FirstDigitWord(cmd.cmd)
                        /\ pc' = IF num' < Len(plan) THEN "open" ELSE "done"
           ELSE IF Contains(up, T_STRSTNVM) /\ baud # 9600
           THEN /\ glob' = [glob EXCEPT !.STARTING_BAUD = 9600, !.TIMEOUT = TimeoutTicks]
                /\ baud' = 9600
                /\ portOpen' = FALSE
                /\ pc' = IF num' < Len(plan) THEN "open" ELSE "done"
           ELSE /\ UNCHANGED << glob, baud, portOpen >>
                /\ pc' = "next"
    /\ log' = Append(HeaderOnly(log), LogSection(rd.buf))
    /\ UNCHANGED << script, clock, quiet, portBaud, rxq, stale, devQ, seq, cmd, fn,
                    sent, steps, staleRead, got, timedOut, plan, wire, faults >>

Next_STSBR_STBRT ==
    \/ S_Open \/ S_AfterOpenRead \/ S_Next \/ S_Tx \/ S_Delay \/ S_Poll \/ S_Logged

\* ------------------------------------------------------------------- spec
Scripts == { "STSBR_115200", "STBR_def_tim", "STSBR_ATI_CR",
             "STBR_delay_1ms", "STSBR_9600", "STPX", "STSBR_STBRT" }

\* The commands of the running script.
SequenceOf(s) ==
    IF s = "STSBR_115200" THEN SEQUENCE_115200
    ELSE IF s = "STBR_def_tim" THEN SEQUENCE_def_tim
    ELSE IF s = "STSBR_ATI_CR" THEN SEQUENCE_ATI_CR
    ELSE IF s = "STBR_delay_1ms" THEN SEQUENCE_delay_1ms
    ELSE IF s = "STSBR_9600" THEN SEQUENCE_9600
    ELSE IF s = "STSBR_STBRT" THEN SEQUENCE_STSBR_STBRT
    ELSE SEQUENCE_STPX

Init ==
    /\ script \in Scripts
    /\ pc = "open"
    /\ clock = 0
    /\ quiet = 0
    /\ portOpen = FALSE
    /\ portBaud = STARTING_BAUD
    /\ rxq = <<>>
    /\ stale = 0
    /\ devQ = <<>>
    /\ num = 0
    /\ baud = STARTING_BAUD
    /\ seq = <<>>
    /\ cmd = NoRecord
    /\ fn = NoRecord
    /\ rd = NoRecord
    /\ res = NoRecord
    /\ sent = <<>>
    /\ steps = <<>>
    /\ staleRead = 0
    /\ got = <<>>
    /\ timedOut = {}
    /\ glob = IF script \in {"STSBR_ATI_CR", "STBR_delay_1ms", "STSBR_STBRT"}
              THEN [STARTING_BAUD |-> STARTING_BAUD, TIMEOUT |-> TimeoutTicks,
                    t_ok_old |-> None]
              ELSE NoRecord
    /\ plan = SequenceOf(script)
    /\ wire = <<>>
    /\ log = <<>>
    /\ faults = 0

Next ==
    \/ DeviceEmit
    \/ Next_115200
    \/ Next_def_tim
    \/ Next_ATI_CR
    \/ Next_delay_1ms
    \/ Next_9600
    \/ Next_STPX
    \/ Next_STSBR_STBRT

Spec == Init /\ [][Next]_vars

\* -------------------------------------------- sessions over other commands
T_STSBR_LOWER == <<"s", "t", "s", "b", "r", SP, "1", "1", "5", "2", "0", "0">>
T_STSBR_ABC == <<"S", "T", "S", "B", "R", SP, "a", "b", "c">>
T_ATI_STSBR == <<"A", "T", "I", SP>> \o T_STSBR_115200
T_STBR_LOWER == <<"s", "t", "b", "r", SP, "1", "1", "5", "2", "0", "0">>
T_STBR_ABC == <<"S", "T", "B", "R", SP, "a", "b", "c">>
T_ATI_STBR == <<"A", "T", "I", SP>> \o T_STBR_115200

\* The scripts run over a SEQUENCE other than the one they ship with.
CommandScripts == { "STSBR_115200", "STBR_def_tim", "STSBR_9600", "STSBR_STBRT" }

\* First commands of such a SEQUENCE: a speed change as shipped, one in
\* lower case, one whose rate is no number, one with the name after the
\* start of the command.
CommandTexts(s) ==
    IF s = "STBR_def_tim"
    THEN { T_STBR_LOWER, T_STBR_ABC, T_ATI_STBR }
    ELSE { T_STSBR_115200, T_STSBR_LOWER, T_STSBR_ABC, T_ATI_STSBR }

\* SEQUENCE = [(text, 0), ("STI", BASE_DELAY)]
CommandPlans(s) == { << Cmd(t, 0), Cmd(T_STI, BASE_DELAY) >> : t \in CommandTexts(s) }

InitCommands ==
    /\ script \in CommandScripts
    /\ plan \in CommandPlans(script)
    /\ pc = "open"
    /\ clock = 0
    /\ quiet = 0
    /\ portOpen = FALSE
    /\ portBaud = STARTING_BAUD
    /\ rxq = <<>>
    /\ stale = 0
    /\ devQ = <<>>
    /\ num = 0
    /\ baud = STARTING_BAUD
    /\ seq = <<>>
    /\ cmd = NoRecord
    /\ fn = NoRecord
    /\ rd = NoRecord
    /\ res = NoRecord
    /\ sent = <<>>
    /\ steps = <<>>
    /\ staleRead = 0
    /\ got = <<>>
    /\ timedOut = {}
    /\ glob = IF script = "STSBR_STBRT"
              THEN [STARTING_BAUD |-> STARTING_BAUD, TIMEOUT |-> TimeoutTicks,
                    t_ok_old |-> None]
              ELSE NoRecord
    /\ wire = <<>>
    /\ log = <<>>
    /\ faults = 0

NextCommands ==
    \/ DeviceEmit
    \/ Next_115200
    \/ Next_def_tim
    \/ Next_9600
    \/ Next_STSBR_STBRT

SpecCommands == InitCommands /\ [][NextCommands]_vars

\* ------------------------------------------------ sessions with a failing port
\* How many operations on the port may raise in one session.
MaxFaults == 1

\* read_stsbr_with_baud_switch: ser.baudrate = new_baud or
\* ser.reset_input_buffer() raises; except Exception: pass (lines 149-161)
A_SuppressedFault ==
    /\ script = "STSBR_115200"
    /\ faults < MaxFaults
    /\ \/ /\ pc = "switch" /\ SwitchAllowed(rd)
          /\ steps' = Append(steps, "SWITCH_FAILED")
          /\ pc' = "settle"
       \/ /\ pc = "settle"
          /\ steps' = Append(steps, "FLUSH_FAILED")
          /\ pc' = "phase2"
    /\ faults' = faults + 1
    /\ log' = HeaderOnly(log)
    /\ UNCHANGED << script, clock, quiet, portOpen, portBaud, rxq, stale, devQ, num,
                    baud, seq, cmd, fn, rd, res, sent, staleRead, got, timedOut, glob,
                    plan, wire >>

\* An operation on the port outside those two raises: the exception leaves
\* the with block and main() prints it and returns (lines 255-275)
A_Fault ==
    /\ script = "STSBR_115200"
    /\ faults < MaxFaults
    /\ pc \in {"tx", "idle", "phase1", "phase2"}
    /\ faults' = faults + 1
    /\ portOpen' = FALSE
    /\ pc' = "failed"
    /\ log' = HeaderOnly(log)
    /\ UNCHANGED << script, clock, quiet, portBaud, rxq, stale, devQ, num, baud, seq,
                    cmd, fn, rd, res, sent, steps, staleRead, got, timedOut, glob,
                    plan, wire >>

\* STSBR_STBRT.py: an operation on the port raises; main() prints the
\* exception and returns (lines 115-142)
S_Fault ==
    /\ script = "STSBR_STBRT"
    /\ faults < MaxFaults
    /\ pc \in {"tx", "read", "open_read"}
    /\ faults' = faults + 1
    /\ portOpen' = FALSE
    /\ pc' = "failed"
    /\ log' = HeaderOnly(log)
    /\ UNCHANGED << script, clock, quiet, portBaud, rxq, stale, devQ, num, baud, seq,
                    cmd, fn, rd, res, sent, steps, staleRead, got, timedOut, glob,
                    plan, wire >>

InitFaults == Init /\ script \in {"STSBR_115200", "STSBR_STBRT"}

NextFaults ==
    \/ DeviceEmit
    \/ Next_115200
    \/ Next_STSBR_STBRT
    \/ A_SuppressedFault
    \/ A_Fault
    \/ S_Fault

SpecFaults == InitFaults /\ [][NextFaults]_vars

\* ------------------------------------------------------------- properties
Range(s) == { s[i] : i \in 1..Len(s) }

\* The least offset >= from of a complete occurrence of pat in buf, or None.
Earliest(buf, pat, from) ==
    LET S == { i \in from..(Len(buf) - Len(pat)) : MatchAt(buf, pat, i) }
    IN  IF S = {} THEN None ELSE CHOOSE i \in S : \A j \in S : i <= j

InStsbrSwitch ==
    script = "STSBR_115200" /\ pc \in {"switch", "settle", "phase2", "return"}

InFastSwitch ==
    script = "STBR_def_tim"
    /\ pc \in {"hs_ok", "done_hs_ok", "hs_banner", "done_hs_banner",
               "hs_prompt", "done_hs_prompt"}

PastOldRead_def_tim ==
    script = "STBR_def_tim"
    /\ pc \in {"hs_banner", "done_hs_banner", "hs_prompt", "done_hs_prompt"}

PastOldRead_ATI_CR ==
    script = "STSBR_ATI_CR" /\ pc \in {"hs_new", "done_hs_new"}

Plan_115200 == <<"OLD_OK_CR", "SWITCH_NEW", "NEW_PROMPT">>

Plan_def_tim == <<"OLD_OK", "SWITCH_NEW", "NEW_BANNER", "SWITCH_OLD", "OLD_PROMPT">>

C3_InPlaceAndDiscarded ==
    /\ [](staleRead = 0)
    /\ [][portBaud' # portBaud => portOpen /\ portOpen']_vars

\* C3, amended: the handshake functions (read_stsbr_with_baud_switch,
\* stbr_fast_switch, send_stsbr_and_switch_baud) change the speed on the open
\* port; main() of STBR_delay_1ms, of STSBR_ATI_CR and of STSBR_STBRT changes
\* it by closing the port and opening it again at the new speed, with an
\* empty input buffer.  Either way no byte received before the change is
\* read afterwards.
C3_DiscardedEitherWay ==
    /\ [](staleRead = 0)
    /\ [][portBaud' # portBaud =>
            IF pc = "open"
            THEN /\ script \in {"STBR_delay_1ms", "STSBR_ATI_CR", "STSBR_STBRT"}
                 /\ ~portOpen /\ portOpen' /\ rxq' = <<>>
            ELSE /\ script \in {"STSBR_115200", "STBR_def_tim", "STSBR_ATI_CR"}
                 /\ portOpen /\ portOpen']_vars

\* C3: bytes were queued when stbr_fast_switch went back to the old speed,
\* and its prompt read has since taken newer bytes from the port.
C3_Witness ==
    /\ script = "STBR_def_tim" /\ pc = "hs_prompt"
    /\ rd.buf # <<>>
    /\ Len(got) > Len(rd.buf)

\* The reader has nothing more to read, or has left its loop.
ReaderAtEnd == script = "readers" /\ (rxq = <<>> \/ ReaderDone(pc, rd))

\* C4: however the response is split into reads, each reader ends with the
\* markers, at the offsets, that it finds when one read returns the whole
\* response.
C4_ChunkIndependent == ReaderAtEnd => Markers(pc, rd) = Markers(pc, res)

\* C5: in an anchored two-marker search a reported second marker starts
\* after the last byte of the first occurrence of the first marker.
C5_SecondAfterAnchor ==
    script = "readers" =>
      /\ (pc = "switch" /\ rd.p_cr # None) =>
            rd.p_cr > Earliest(rd.buf_old, OK, 0) + Len(OK) - 1
      /\ (pc = "t1_t2" /\ rd.p_gt # None) =>
            rd.p_gt > Earliest(rd.buf, OK, 0) + Len(OK) - 1
      /\ (pc = "strstnvm" /\ rd.banner_start_idx # None) =>
            /\ rd.ok_end_idx = Earliest(rd.rx_bytes, PAT_OK, 0) + Len(PAT_OK) - 1
            /\ rd.banner_start_idx > rd.ok_end_idx

\* C5: read_stsbr_with_baud_switch has reported the CR after OK although
\* the response holds a CR before the OK.
C5_Witness ==
    /\ script = "readers" /\ pc = "switch"
    /\ rd.p_cr # None
    /\ Earliest(rd.buf_old, <<CR>>, 0) < rd.p_ok

\* C6 as stated: every reported offset is that of the earliest complete
\* occurrence of the marker in the cumulative buffer.
C6_EarliestInBuffer ==
    script = "readers" =>
      /\ (pc = "switch" /\ rd.p_ok # None) => rd.p_ok = Earliest(rd.buf_old, OK, 0)
      /\ (pc = "switch" /\ rd.p_cr # None) => rd.p_cr = Earliest(rd.buf_old, <<CR>>, 0)
      /\ (pc = "t1_t2" /\ rd.p_gt # None) => rd.p_gt = Earliest(rd.buf, <<GT>>, 0)
      /\ (pc = "atd" /\ rd.prompt_idx # None) =>
            rd.prompt_idx = Earliest(rd.rx_bytes, PAT_PROMPT, 0)

\* Where the search for a reader's second marker starts.
AfterAnchor(p, pat) == p + Len(pat)

C6_EarliestFromStart ==
    /\ Find(<<"O", "K", CR, CR, "O", "K", CR, CR, GT>>, PROMPT, 0) = 4
    /\ script = "readers" =>
         /\ pc = "switch" =>
              /\ rd.cr1_time = None => rd.p_ok = Earliest(rd.buf_old, OK, 0)
              /\ rd.p_ok # None =>
                   /\ rd.p_ok = Earliest(rd.buf_old, OK, 0)
                   /\ rd.p_cr = Earliest(rd.buf_old, <<CR>>, AfterAnchor(rd.p_ok, OK))
         /\ pc = "t1_t2" =>
              /\ rd.p_ok = Earliest(rd.buf, OK, 0)
              /\ rd.p_ok # None =>
                   rd.p_gt = Earliest(rd.buf, <<GT>>, AfterAnchor(rd.p_ok, OK))
         /\ pc = "strstnvm" =>
              /\ rd.ok_end_idx # None <=> Earliest(rd.rx_bytes, PAT_OK, 0) # None
              /\ rd.ok_end_idx # None =>
                   /\ rd.ok_end_idx = Earliest(rd.rx_bytes, PAT_OK, 0) + Len(PAT_OK) - 1
                   /\ rd.banner_start_idx =
                         Earliest(rd.rx_bytes, PAT_BANNER, rd.ok_end_idx + 1)
         /\ pc = "atd" => rd.prompt_idx = Earliest(rd.rx_bytes, PAT_PROMPT, 0)
         /\ pc = "read_until" =>
              (rd.t_found # None <=> Earliest(rd.buf, PROMPT, 0) # None)

\* An anchor that is set keeps its offset and its time.
C6_AnchorKept ==
    /\ (pc \in {"switch", "t1_t2"} /\ rd.p_ok # None) =>
          rd'.p_ok = rd.p_ok /\ rd'.ok_time = rd.ok_time
    /\ (pc = "strstnvm" /\ rd.ok_end_idx # None) => rd'.ok_end_idx = rd.ok_end_idx

\* C6, amended: every marker search reports the earliest complete occurrence
\* of the marker at or after the offset its search starts from, which is 0
\* for a first or only marker and the end of the anchor for an anchored
\* second marker; an anchor, once found, keeps its offset and its time.
C6_EarliestAndKept ==
    /\ [](C6_EarliestFromStart)
    /\ [][script = "readers" => C6_AnchorKept]_vars

\* C6: OK occurs twice in what read_stsbr_t1_t2 has read, the anchor is the
\* first one and more bytes have been read since it was found.
C6_Witness ==
    /\ script = "readers" /\ pc = "t1_t2"
    /\ rd.p_ok # None
    /\ Earliest(rd.buf, OK, rd.p_ok + 1) # None
    /\ rd.ok_time < clock

\* The host is in an idle-based read that has no marker.
InIdleRead == pc \in {"idle", "quiet", "read", "hs_old", "hs_new"}

\* The idle gap of the running idle-based read.
IdleGapOf(r) == IF "delay" \in DOMAIN r THEN r.delay ELSE IdleGapTicks

\* The pass of an idle-based read that leaves the loop.
IdleReadReturns == InIdleRead /\ pc' \notin {pc, "open"} /\ rd' = rd

\* C7: an idle-based read with no marker returns only when no byte has
\* arrived for the idle gap, not before the gap has passed since the read
\* began, and with exactly the bytes the port has queued, in arrival order.
C7_IdleReadComplete ==
    [][IdleReadReturns =>
          /\ rxq = <<>>
          /\ quiet >= IdleGapOf(rd)
          /\ clock - rd.start >= IdleGapOf(rd)
          /\ rd.buf = got]_vars

\* C7: read_until_quiet has returned both bursts of an answer, the second of
\* which arrived while it was reading.
C7_Witness ==
    /\ script = "STPX" /\ pc = "logged"
    /\ rd.buf = <<"O", "K", CR, GT>>
    /\ rd.last_rx > rd.start

\* C8: every read of a handshake is made before one deadline fixed when the
\* command was sent: t_tx plus the prompt timeout in
\* read_stsbr_with_baud_switch, t_tx plus the three waits in stbr_fast_switch.
C8_ReadsBeforeDeadline ==
    /\ (script = "STSBR_115200" /\ pc \in {"phase1", "switch", "settle", "phase2", "return"}
          /\ rd.t_read # None) =>
          rd.t_read < fn.t_tx + StsbrTimeoutTicks
    /\ (InFastSwitch /\ rd.t_last # None) =>
          rd.t_last <= fn.t_tx + OkWaitTicks + BannerWaitTicks + PromptWaitTicks

HandshakeLogged == "handshake" \in DOMAIN res /\ res.handshake

\* C9: a handshake of the STSBR timing scripts that ends without its marker
\* returns like any other, with the times it captured, and the session sends
\* the commands that follow: the commands go out in order, none skipped, and
\* the session ends only when all were sent.
C9_TimeoutNotFatal ==
    script \in {"STSBR_115200", "STSBR_9600"} =>
      /\ sent = [i \in 1..Len(sent) |-> i - 1]
      /\ pc = "done" => Len(sent) = Len(SequenceOf(script))
      /\ (pc = "next" /\ HandshakeLogged) =>
            /\ num = res.num + 1
            /\ portOpen
            /\ seq = SubSeq(SequenceOf(script), num + 1, Len(SequenceOf(script)))
            /\ res.ok_t # None => res.T1 = res.ok_t - res.t_tx
            /\ res.prompt_t = None => res.T2 = None /\ res.num \in timedOut

\* C9: the STSBR handshake of STSBR_STBRT_115200_delay saw no prompt and the
\* session has sent all five commands.
C9_Witness ==
    /\ script = "STSBR_115200" /\ pc = "done"
    /\ timedOut = {2}
    /\ Len(sent) = 5

\* C10: an interval is logged only when both markers that bound it were
\* detected in that handshake.
C10_IntervalsNeedMarkers ==
    HandshakeLogged =>
      /\ script \in {"STSBR_115200", "STSBR_9600"} =>
            /\ res.T1 # None => res.ok_t # None
            /\ res.T2 # None => res.ok_t # None /\ res.prompt_t # None
      /\ script \in {"STBR_def_tim", "STBR_delay_1ms"} =>
            /\ res.T1 # None => res.ok_t # None /\ res.banner_t # None
            /\ res.T2 # None => res.banner_t # None /\ res.prompt_t # None

\* C18: the bytes written for a command of the sequence are its text followed
\* by exactly one carriage return, and the text unchanged when it already ends
\* with a carriage return.
C18_OneNewline ==
    [][Len(sent') > Len(sent) => wire' = EnsureNewline(cmd.cmd)]_vars

\* send_and_log of STSBR_ATI_CR has written the fourth command of its
\* SEQUENCE, the bare carriage return.
C18_Witness ==
    /\ script = "STSBR_ATI_CR" /\ pc = "delay"
    /\ cmd.cmd = T_CR
    /\ wire = <<CR, CR>>

\* The rendering the log format prescribes for one byte.
PrescribedPiece(x) ==
    CASE x = 32 -> <<MIDDOT>>
      [] x = 13 -> <<"<", "C", "R", ">">>
      [] x = 10 -> <<"<", "L", "F", ">", "\n">>
      [] x = 9 -> <<"<", "T", "A", "B", ">">>
      [] x >= 33 /\ x <= 126 -> <<Printable[x - 32]>>
      [] OTHER -> <<"\\", "x", HexDigits[(x \div 16) + 1], HexDigits[(x % 16) + 1]>>

RECURSIVE Prescribed(_)
Prescribed(b) ==
    IF b = <<>> THEN <<>> ELSE PrescribedPiece(b[1]) \o Prescribed(Tail(b))

Rendered == script = "writers" /\ pc = "written" /\ "visible" \in DOMAIN res

\* C20: the visible rendering of a byte string is the concatenation, over every
\* byte in order, of the middle dot for 0x20, <CR> for 0x0D, <LF> and a newline
\* for 0x0A, <TAB> for 0x09, the character for 0x21..0x7E and \xHH for any
\* other byte, 0x00 included: no byte is dropped.
C20_EveryByteRendered ==
    Rendered => res.visible = Prescribed(rd.data)

\* make_visible has rendered a byte string with a zero byte in the middle.
C20_Witness ==
    /\ Rendered /\ fn.kind = "make_visible"
    /\ rd.data = <<65, 0, 65>>
    /\ res.visible = <<"A">>

\* How many microseconds a logged interval text stands for.
MsValue(text) ==
    LET dot == IndexIn(".", text)
    IN  1000 * DigitsValue(SubSeq(text, 1, dot - 1), 0)
          + DigitsValue(SubSeq(text, dot + 1, Len(text)), 0)

Reported == script = "writers" /\ pc = "written" /\ "T1" \in DOMAIN res

\* C16: each reported interval is the literal difference, in milliseconds, of
\* the two times recorded for its bounding events, with no correction:
\* transmit at 100.000000 s and marker at 100.123456 s give 123.456 ms, OK at
\* 0.010 s and banner at 0.045 s give 35 ms.
C16_LiteralDifference ==
    /\ (Reported /\ fn.kind = "send_and_log") =>
          /\ res.T1 # <<>> => MsValue(res.T1) = rd.ok_t - rd.t_tx
          /\ res.T2 # <<>> => MsValue(res.T2) = rd.prompt_t - rd.ok_t
          /\ (rd.t_tx = 100000000 /\ rd.ok_t = 100123456) =>
                res.T1 = <<"1", "2", "3", ".", "4", "5", "6">>
    /\ (Reported /\ fn.kind = "stbr_fast_switch") =>
          /\ res.T1 # <<>> => MsValue(res.T1) = rd.t_banner_time - rd.t_ok_time
          /\ res.T2 # <<>> => MsValue(res.T2) = rd.t_prompt_time - rd.t_banner_time
          /\ (rd.t_ok_time = 10000 /\ rd.t_banner_time = 45000) =>
                res.T1 = <<"3", "5", ".", "0", "0", "0">>

\* Both examples have been reported.
C16_Witness ==
    /\ Reported /\ fn.kind = "stbr_fast_switch"
    /\ rd.t_ok_time = 10000 /\ rd.t_banner_time = 45000 /\ rd.t_prompt_time = 100123456
    /\ res.T1 = <<"3", "5", ".", "0", "0", "0">>
    /\ res.T2 = <<"1", "0", "0", "0", "7", "8", ".", "4", "5", "6">>

\* The bytes a finished read hands to the caller for logging.
CaptureOf(r) == IF "buf" \in DOMAIN r THEN r.buf ELSE r.buf_old \o r.buf_new

TimedRead == script = "readers" /\ pc \in {"strstnvm", "atd", "atws"}

\* C19: during one timed read the timestamp list holds exactly one timestamp
\* for each byte of the receive buffer and the timestamps are non-decreasing in
\* buffer order, so that an interval between a later and an earlier offset is
\* never negative.
C19_OneStampPerByteInOrder ==
    TimedRead =>
      /\ Len(rd.rx_times) = Len(rd.rx_bytes)
      /\ \A i, j \in 1..Len(rd.rx_times) : i < j => rd.rx_times[i] <= rd.rx_times[j]
      /\ rd.t1 # None => rd.t1 >= 0

\* STRSTNVM_delay has found the banner after OK\r and computed a negative T1.
C19_Witness ==
    /\ TimedRead /\ pc = "strstnvm"
    /\ rd.banner_start_idx # None
    /\ rd.t1 < 0 /\ rd.t1 # None
    /\ Len(rd.rx_times) = Len(rd.rx_bytes)

\* ---------------------------------------------------------------- C13
\* The i-th transmission is the i-th command, and a finished session has
\* transmitted all of them.
C13_InOrder ==
    /\ \A i \in 1..Len(sent) : sent[i] = i - 1
    /\ Len(sent) <= Len(plan)
    /\ pc = "done" => Len(sent) = Len(plan)

\* A transmission sends the command that follows the last one sent.
C13_NextInLine ==
    sent' # sent => /\ sent' = Append(sent, Len(sent))
                    /\ cmd' = plan[Len(sent')]
                    /\ cmd' = cmd

\* C13: within a session that ends without a channel error every command
\* of SEQUENCE is transmitted exactly once and in the order given, also
\* across port reopens and across a new-speed read that fell back to the
\* previous speed: no command is skipped, repeated or reordered.
C13_EachOnceInOrder == [](C13_InOrder) /\ [][C13_NextInLine]_vars

\* STBR_delay_1ms.py has reopened the port for the new speed, missed the
\* banner there, fallen back to the previous speed and transmitted the
\* command that follows the speed change.
C13_Witness ==
    /\ script = "STBR_delay_1ms"
    /\ 2 \in timedOut
    /\ portOpen /\ portBaud = STARTING_BAUD
    /\ Len(sent) = 4 /\ cmd = plan[4]

\* ---------------------------------------------------------------- C14
\* The steps of a transition that set the speed of the host port.
SwitchingSteps == {"SWITCH_NEW", "SWITCH_OLD", "REOPEN_NEW"}

\* The speed the last switching step of the transition just ended has set:
\* the target of the command, the speed before it after a switch back,
\* and the speed before it when the transition did not switch at all.
LastSwitched ==
    LET sw == SelectSeq(steps, LAMBDA x : x \in SwitchingSteps)
    IN  IF sw = <<>> \/ sw[Len(sw)] = "SWITCH_OLD"
        THEN STARTING_BAUD
        ELSE FirstDigitWord(plan[num].cmd)

\* The transition of the command just ended has timed out and the program
\* is about to take the next command.
AfterTimedOutTransition == pc = "next" /\ num > 0 /\ (num - 1) \in timedOut

\* main() of the reopening scripts has found the first read at the new
\* speed without its marker.
FellBack ==
    /\ script \in {"STBR_delay_1ms", "STSBR_STBRT"}
    /\ steps # <<>> /\ steps[1] = "REOPEN_NEW" /\ Len(steps) = 2

\* C14 as stated: when a transition step has timed out, the host port is at
\* the speed the last switching step of the transition set when the next
\* command is taken; the timeout changes no speed and rolls nothing back.
C14_NoRollback ==
    AfterTimedOutTransition => portOpen /\ portBaud = LastSwitched

\* C14, amended: that holds for the handshakes that switch the open port in
\* place and for a missed prompt after the ACK; when the first read after a
\* reopen at the new speed misses its marker, main() reopens the port at
\* the speed in force before the command.
C14_RollbackOnlyAfterReopen ==
    AfterTimedOutTransition =>
        /\ portOpen
        /\ portBaud = IF FellBack THEN glob.STARTING_BAUD ELSE LastSwitched
        /\ FellBack => portBaud # LastSwitched

\* read_stsbr_with_baud_switch has switched to the new speed, missed the
\* prompt there, and the next command finds the port at the new speed.
C14_Witness ==
    /\ script = "STSBR_115200"
    /\ AfterTimedOutTransition
    /\ \E i \in 1..Len(steps) : steps[i] = "SWITCH_NEW"
    /\ portBaud = FirstDigitWord(plan[num].cmd)
    /\ portBaud # STARTING_BAUD

\* ---------------------------------------------------------------- C17
\* The fixed speed-change command names.
SpeedNames == { <<"S", "T", "B", "R">>, <<"S", "T", "S", "B", "R">> }

\* The command begins, ignoring letter case, with a speed-change name.
BeginsWithSpeedName(text) == \E n \in SpeedNames : StartsWith(Upper(text), n)

\* The command last transmitted is being handled on the speed-change path:
\* a handshake step or a reopen for a new speed has been taken for it.
OnSpeedPath == steps # <<>>

\* C17: a command takes the speed-change path only if, ignoring letter
\* case, it begins with STBR or STSBR; a command that merely contains such a
\* name after its start is handled as a plain round trip.
C17_PrefixOnly ==
    OnSpeedPath => BeginsWithSpeedName(plan[Len(sent)].cmd)

\* A command in lower case that begins with the name is on the speed-change
\* path.
C17_Witness ==
    /\ OnSpeedPath
    /\ plan[Len(sent)].cmd \in {T_STSBR_LOWER, T_STBR_LOWER}

\* ---------------------------------------------------------------- C11
\* A speed-change command whose target rate cannot be parsed.
Malformed(text) == BeginsWithSpeedName(text) /\ FirstDigitWord(text) = None

\* C11: a speed-change command whose target rate cannot be parsed causes no
\* change of the host port speed, is recorded in the transcript as an
\* error, and the session proceeds to the next command of SEQUENCE instead
\* of ending.
C11_MalformedSkipped ==
    \A i \in 1..Len(plan) :
        Malformed(plan[i].cmd) =>
            /\ pc # "failed"
            /\ Len(sent) >= i => portBaud = STARTING_BAUD
            /\ (res # NoRecord /\ res.num = i - 1) => res.error

\* send_and_log of STSBR_STBRT_115200_delay.py has logged the error for
\* "STSBR abc", left the port speed alone and returned to main().
C11_Witness ==
    /\ script = "STSBR_115200"
    /\ Malformed(plan[1].cmd)
    /\ pc = "next" /\ num = 1
    /\ res # NoRecord /\ res.error
    /\ portOpen /\ portBaud = STARTING_BAUD

\* ---------------------------------------------------------------- C12
\* C12: an operation on the serial channel that fails during a command is
\* not suppressed: it ends the session, the port is closed, and no later
\* handshake step and no later command is executed on the channel.
C12_FailureEndsSession ==
    faults > 0 => pc = "failed" /\ ~portOpen

\* A failed read of STSBR_STBRT.py after its first command was transmitted
\* has ended the session.
C12_Witness ==
    /\ script = "STSBR_STBRT"
    /\ faults > 0 /\ pc = "failed" /\ ~portOpen
    /\ Len(sent) = 1 /\ rd # NoRecord

\* ---------------------------------------------------------------- C21
\* text is one two-digit uppercase hexadecimal token per byte of b, in
\* order, with a single space between neighbours.
IsHexDump(text, b) ==
    /\ Len(text) = IF b = <<>> THEN 0 ELSE 3 * Len(b) - 1
    /\ \A i \in 1..Len(b) :
        /\ text[3 * i - 2] = HexDigits[(b[i] \div 16) + 1]
        /\ text[3 * i - 1] = HexDigits[(b[i] % 16) + 1]
        /\ i < Len(b) => text[3 * i] = SP

\* A hex dump has been written.
Dumped == script = "writers" /\ pc = "written" /\ "hex" \in DOMAIN res

\* C21: the hex dump of a captured byte string is exactly one two-digit
\* uppercase hexadecimal token per byte, in order, separated by single
\* spaces, for every byte value 0x00..0xFF, and the logged byte count is the
\* number of tokens.
C21_TwoDigitsPerByte ==
    Dumped => IsHexDump(res.hex, rd.data) /\ res.len = Len(rd.data)

\* hex_bytes of STPX.py has dumped three bytes, a zero byte and 0xFF among
\* them, as two-digit tokens.
C21_Witness ==
    /\ Dumped /\ fn.kind = "visible_bytes"
    /\ rd.data = <<0, 255, 10>>
    /\ res.hex = <<"0", "0", SP, "F", "F", SP, "0", "A">>

\* ------------------------------------------------- Testing_logs/main.py
\* A transcript is its sequence of blocks; a block is a header line and
\* the content lines up to the next header.  A header line is the index in
\* brackets, None for a header without one, and the text after it.
Block(header, content) == [header |-> header, content |-> content]

\* HEADER_RE, PLAIN_HEADER_RE: the command text of a header line (lines 46-53)
CommandOf(header) == header.text

\* blocks_by_header.keys(): the header lines in the order they first appear
RECURSIVE HeaderKeys(_, _)
HeaderKeys(blocks, seen) ==
    IF blocks = <<>> THEN <<>>
    ELSE IF Head(blocks).header \in seen THEN HeaderKeys(Tail(blocks), seen)
    ELSE <<Head(blocks).header>> \o HeaderKeys(Tail(blocks), seen \cup {Head(blocks).header})

\* blocks_by_header[current_header] = current_buf: a later block with the
\* same header line replaces the earlier one (lines 26-39)
RECURSIVE LastContent(_, _)
LastContent(blocks, header) ==
    IF blocks[Len(blocks)].header = header THEN blocks[Len(blocks)].content
    ELSE LastContent(SubSeq(blocks, 1, Len(blocks) - 1), header)

\* load_blocks: headers is blocks_by_header.keys(), by_header the contents,
\* keys[i] the (command, occurrence) key of headers[i] (header_to_cmdocc,
\* and in this order blocks_by_cmd_occ.keys())
load_blocks(blocks) ==
    LET headers == HeaderKeys(blocks, {})
        occ(i) == Cardinality({ j \in 1..i : CommandOf(headers[j]) = CommandOf(headers[i]) })
    IN  [headers |-> headers,
         by_header |-> [h \in { headers[i] : i \in 1..Len(headers) } |->
                          LastContent(blocks, h)],
         keys |-> [i \in 1..Len(headers) |-> <<CommandOf(headers[i]), occ(i)>>]]

\* header_to_cmdocc[header]
CmdOcc(loaded, header) ==
    loaded.keys[CHOOSE i \in 1..Len(loaded.headers) : loaded.headers[i] = header]

\* blocks_by_cmd_occ[key]
ByCmdOcc(loaded, key) ==
    loaded.by_header[loaded.headers[CHOOSE i \in 1..Len(loaded.keys) : loaded.keys[i] = key]]


\* compare_files: has_diff, diffs, only_stn_reported, only_ds_reported
compare_files(stn, ds) ==
    LET stn_l == load_blocks(stn)
        ds_l == load_blocks(ds)
        common_by_header == SelectSeq(stn_l.headers, LAMBDA h : h \in Range(ds_l.headers))
        only_stn_headers == SelectSeq(stn_l.headers, LAMBDA h : h \notin Range(ds_l.headers))
        only_ds_headers == SelectSeq(ds_l.headers, LAMBDA h : h \notin Range(stn_l.headers))
        compared == { CmdOcc(stn_l, h) : h \in Range(common_by_header) }
        by_header == SelectSeq(common_by_header,
                               LAMBDA h : stn_l.by_header[h] # ds_l.by_header[h])
        by_cmd_occ == SelectSeq(stn_l.keys,
                                LAMBDA k : /\ k \notin compared
                                           /\ k \in Range(ds_l.keys)
                                           /\ ByCmdOcc(stn_l, k) # ByCmdOcc(ds_l, k))
        only_stn_reported == SelectSeq(only_stn_headers,
                                       LAMBDA h : CmdOcc(stn_l, h) \notin Range(ds_l.keys))
        only_ds_reported == SelectSeq(only_ds_headers,
                                      LAMBDA h : CmdOcc(ds_l, h) \notin Range(stn_l.keys))
        diffs == [i \in 1..Len(by_header) |-> [header |-> by_header[i]]]
                 \o [i \in 1..Len(by_cmd_occ) |-> [key |-> by_cmd_occ[i]]]
    IN  IF diffs # <<>> \/ only_stn_reported # <<>> \/ only_ds_reported # <<>>
        THEN [has_diff |-> TRUE, diffs |-> diffs, only_stn |-> only_stn_reported,
              only_ds |-> only_ds_reported]
        ELSE [has_diff |-> FALSE, diffs |-> <<>>, only_stn |-> <<>>, only_ds |-> <<>>]

\* Transcripts of at most MaxBlocks blocks.
MaxBlocks == 2

\* --- [0] A ---, --- [1] A ---, --- B ---
HeaderLines ==
    { [index |-> 0, text |-> "A"], [index |-> 1, text |-> "A"],
      [index |-> None, text |-> "B"] }

ContentLines == { <<"len=0">>, <<"len=1", "OK">> }

Transcripts ==
    UNION { [1..n -> { Block(h, c) : h \in HeaderLines, c \in ContentLines }] :
              n \in 0..MaxBlocks }

\* main(): compare_files(stn_path, ds_path, diff_path) for one paired file
Compare ==
    /\ script = "compare" /\ pc = "compare_files"
    /\ res' = compare_files(rd.stn, rd.ds)
    /\ pc' = "returned"
    /\ UNCHANGED << script, clock, quiet, portOpen, portBaud, rxq, stale, devQ, num,
                    baud, seq, cmd, fn, rd, sent, steps, staleRead, got, timedOut, glob,
                    plan, wire, log, faults >>

InitCompare ==
    /\ script = "compare"
    /\ pc = "compare_files"
    /\ rd \in { [stn |-> a, ds |-> b] : a \in Transcripts, b \in Transcripts }
    /\ fn = NoRecord
    /\ res = NoRecord
    /\ rxq = <<>>
    /\ got = <<>>
    /\ clock = 0
    /\ quiet = 0
    /\ portOpen = FALSE
    /\ portBaud = STARTING_BAUD
    /\ stale = 0
    /\ devQ = <<>>
    /\ num = 0
    /\ baud = STARTING_BAUD
    /\ seq = <<>>
    /\ cmd = NoRecord
    /\ sent = <<>>
    /\ steps = <<>>
    /\ staleRead = 0
    /\ timedOut = {}
    /\ glob = NoRecord
    /\ plan = <<>>
    /\ wire = <<>>
    /\ log = <<>>
    /\ faults = 0

NextCompare == Compare

SpecCompare == InitCompare /\ [][NextCompare]_vars

\* ---------------------------------------------------------------- C22
\* compare_files has returned.
Compared == script = "compare" /\ pc = "returned"

\* C22: compare_files reports every block that is present in only one of
\* the two transcripts; two transcripts with different numbers of blocks are
\* never reported as having no block-level differences.
C22_OneSidedReported ==
    Compared => (Len(rd.stn) # Len(rd.ds) => res.has_diff)

\* A block whose header and command occur only in the second transcript is
\* reported as ONLY IN dsPIC.
C22_Witness ==
    /\ Compared
    /\ Len(rd.stn) = 1 /\ Len(rd.ds) = 2
    /\ rd.stn[1] = rd.ds[1]
    /\ res.has_diff /\ res.diffs = <<>> /\ res.only_stn = <<>>
    /\ res.only_ds = <<rd.ds[2].header>>

\* ---------------------------------------------------------------- C23
\* Every block of a has a block in b with the same command text and
\* identical content lines.
AllHaveCounterpart(a, b) ==
    \A i \in 1..Len(a) : \E j \in 1..Len(b) :
        /\ CommandOf(a[i].header) = CommandOf(b[j].header)
        /\ a[i].content = b[j].content

\* C23: compare_files returns 'no differences' only if every block of each
\* transcript, including blocks whose header text repeats within a file,
\* has a counterpart with identical content.
C23_SameOnlyIfAllMatch ==
    (Compared /\ ~res.has_diff) =>
        AllHaveCounterpart(rd.stn, rd.ds) /\ AllHaveCounterpart(rd.ds, rd.stn)

\* Two blocks whose headers differ in the index only are aligned by
\* (command, occurrence) and reported as a DIFF.
C23_Witness ==
    /\ Compared
    /\ Len(rd.stn) = 1 /\ Len(rd.ds) = 1
    /\ rd.stn[1].header # rd.ds[1].header
    /\ res.has_diff /\ res.diffs = << [key |-> <<"A", 1>>] >>
    /\ res.only_stn = <<>> /\ res.only_ds = <<>>

\* ---------------------------------------------------------------- C24
\* The steps of one run of stbr_fast_switch.
FastSwitchSteps == <<"OLD_OK", "SWITCH_NEW", "NEW_BANNER", "SWITCH_OLD", "OLD_PROMPT">>

\* C24: stbr_fast_switch sets the port speed old, new, old: it waits for OK\r
\* at the old speed, for the banner at the new speed and for the prompt at the
\* old speed, and when it returns the port speed equals the speed before the
\* command, whichever of the markers were detected.
C24_OldNewOld ==
    /\ [](script = "STBR_def_tim" =>
            /\ pc = "hs_tx" => portBaud = baud
            /\ pc \in {"hs_ok", "done_hs_ok"} =>
                  /\ fn.old_baud = baud /\ portBaud = fn.old_baud
                  /\ rd.command = OK_CR
            /\ pc \in {"hs_banner", "done_hs_banner"} =>
                  /\ fn.old_baud = baud /\ portBaud = fn.new_baud
                  /\ rd.command = BANNER
            /\ pc \in {"hs_prompt", "done_hs_prompt"} =>
                  /\ fn.old_baud = baud /\ portBaud = fn.old_baud
                  /\ rd.command = PROMPT
                  /\ steps = FastSwitchSteps)
    /\ [][(script = "STBR_def_tim" /\ pc = "done_hs_prompt" /\ pc' # pc) =>
            /\ pc' = "next"
            /\ portBaud' = fn.old_baud /\ baud' = fn.old_baud]_vars

\* stbr_fast_switch has returned from STBR 115200 without having detected
\* any of the three markers, and the port is at 9600 as before.
C24_Witness ==
    /\ script = "STBR_def_tim" /\ pc = "next"
    /\ HandshakeLogged /\ res.ok_t = None /\ res.banner_t = None /\ res.prompt_t = None
    /\ steps = FastSwitchSteps
    /\ portOpen /\ portBaud = STARTING_BAUD /\ baud = STARTING_BAUD

\* stbr_fast_switch has returned with all three markers detected.
C24_AllDetected ==
    /\ script = "STBR_def_tim" /\ pc = "next"
    /\ HandshakeLogged /\ res.ok_t # None /\ res.banner_t # None /\ res.prompt_t # None
    /\ portBaud = STARTING_BAUD

\* ---------------------------------------------------------------- C25
\* The host writes the ACK byte in this step.
AckSent == wire' = <<CR>> /\ wire # <<CR>>

\* C25: in the handshake of STBR_delay_1ms.py the ACK, exactly one 0x0D, is
\* sent only after the banner was detected at the new speed, at most once per
\* handshake, and before the wait for the prompt; if the banner is not
\* detected no ACK is sent and the host reverts to the previous speed.
C25_AckAfterBanner ==
    /\ [](script = "STBR_delay_1ms" =>
            /\ Cardinality({ i \in 1..Len(steps) : steps[i] = "ACK" }) <= 1
            /\ pc \in {"hs_prompt", "done_hs_prompt"} =>
                  /\ steps = <<"REOPEN_NEW", "NEW_BANNER", "ACK", "NEW_PROMPT">>
                  /\ wire = <<CR>>
            /\ pc \in {"hs_banner", "done_hs_banner"} =>
                  /\ steps = <<"REOPEN_NEW", "NEW_BANNER">>
                  /\ portBaud = baud /\ baud # glob.STARTING_BAUD
                  /\ wire # <<CR>>)
    /\ [][script = "STBR_delay_1ms" =>
            /\ AckSent =>
                  /\ pc = "done_hs_banner" /\ Contains(rd.buf, BANNER)
                  /\ portBaud = baud
                  /\ pc' = "hs_prompt"
            /\ (pc = "done_hs_banner" /\ pc' # pc /\ Contains(rd.buf, BANNER)) => AckSent
            /\ (pc = "done_hs_banner" /\ pc' # pc /\ ~Contains(rd.buf, BANNER)) =>
                  /\ wire' = wire
                  /\ baud' = glob.STARTING_BAUD /\ glob' = glob
                  /\ ~portOpen' /\ pc' = "open"
            /\ (pc = "open" /\ pc' # pc) => (portOpen' /\ portBaud' = baud)]_vars

\* The banner was detected at 115200, one CR was sent and the host has read
\* the prompt.
C25_Witness ==
    /\ script = "STBR_delay_1ms" /\ pc = "done_hs_prompt"
    /\ steps = <<"REOPEN_NEW", "NEW_BANNER", "ACK", "NEW_PROMPT">>
    /\ wire = <<CR>> /\ portBaud = 115200
    /\ Contains(rd.buf, PROMPT)

\* The banner was not detected at 115200, no ACK was sent, and the host is
\* back at 9600 sending the next command.
C25_NoBanner ==
    /\ script = "STBR_delay_1ms" /\ pc = "tx"
    /\ num = 3 /\ 2 \in timedOut
    /\ portOpen /\ portBaud = 9600 /\ baud = 9600
    /\ wire # <<CR>>

\* ---------------------------------------------------------------- C26
\* read_until was called with a marker and is running or has returned.
MarkerRead ==
    /\ script \in {"STBR_def_tim", "STBR_delay_1ms"}
    /\ pc \in {"hs_ok", "hs_banner", "hs_prompt",
               "done_hs_ok", "done_hs_banner", "done_hs_prompt"}

MarkerReadDone == MarkerRead /\ pc \in {"done_hs_ok", "done_hs_banner", "done_hs_prompt"}

\* C26: read_until called with a marker returns as soon as the cumulative
\* buffer first contains the marker; on every return t_found is set if and
\* only if the returned bytes contain the marker, and when it is set it
\* equals t_last and is not earlier than t_first.
C26_FoundIffContained ==
    /\ (MarkerRead /\ ~MarkerReadDone) =>
          /\ rd.command # <<>>
          /\ ~Contains(rd.buf, rd.command)
          /\ rd.t_found = None
    /\ MarkerReadDone =>
          /\ (rd.t_found # None) <=> Contains(rd.buf, rd.command)
          /\ rd.t_found # None =>
                /\ rd.t_found = rd.t_last
                /\ rd.t_first # None /\ rd.t_found >= rd.t_first

\* The read for OK\r has returned on the second chunk, where the marker
\* became complete.
C26_Witness ==
    /\ MarkerReadDone /\ script = "STBR_def_tim" /\ pc = "done_hs_ok"
    /\ rd.t_found # None /\ rd.t_first < rd.t_found
    /\ rd.t_found = rd.t_last
    /\ rd.buf = OK_CR

\* A read for a marker has returned on the idle gap without the marker.
C26_TimedOut ==
    /\ MarkerReadDone /\ rd.buf # <<>> /\ rd.t_found = None

\* ------------------------------------------------------------- ATPPS.py
\* BAUD
ATPPS_BAUD == 9600

\* pp_impact_map, in the order of its items()
pp_impact_map ==
    << [pp |-> "01", commands |-> <<"STRSTNVM", "ATH1", "ATH0", "ATSH 7E0", "ATRTR",
                                    "ATD 1", "ATD 0">>],
       [pp |-> "02", commands |-> <<"ATAL", "ATNL">>],
       [pp |-> "04", commands |-> <<"ATAT 0", "ATAT 1", "ATAT 2">>],
       [pp |-> "09", commands |-> <<"ATE 1", "ATE 0">>],
       [pp |-> "24", commands |-> <<"ATCAF 1", "ATCAF 0", "ATRTR", "ATNL", "ATSH 7DF">>],
       [pp |-> "25", commands |-> <<"ATCFC 1", "ATCFC 0", "ATFCSM 00", "ATFCSH 7E8",
                                    "ATFCSD 30 00">>],
       [pp |-> "29", commands |-> <<"ATH1", "ATD 1", "ATD 0", "STRSTNVM">>] >>

\* f"ATPP {pp} SV 01", f"ATPP {pp} ON", f"ATPP {pp} OFF"
Atpp(pp, what) == <<"ATPP", pp, what>>

\* A pass over the first related command only.
FirstCommandOnly(i) == <<Head(pp_impact_map[i].commands)>>

\* for cmd in commands
CommandsOf(i) == pp_impact_map[i].commands

\* What the device may answer to a command within WAIT_AFTER_SEND_SEC.
RespAtpps == { <<>>, <<"O", "K", CR, GT>> }

\* send(connection, log, cmd): send_and_read and the two log lines; it
\* returns None
send(c) ==
    /\ sent' = Append(sent, c)
    /\ \E r \in RespAtpps : res' = [cmd |-> c, resp |-> r, returned |-> None]

\* main(): connection = serial.Serial(PORT, BAUD, timeout=2), or the
\* exception is printed and main returns (lines 75-84)
P_Open ==
    /\ script = "ATPPS" /\ pc = "open"
    /\ \/ /\ portOpen' = TRUE /\ portBaud' = ATPPS_BAUD
          /\ glob' = [total |-> 0, passed |-> 0]
          /\ num' = 1
          /\ pc' = "param"
       \/ /\ pc' = "failed"
          /\ UNCHANGED << portOpen, portBaud, glob, num >>
    /\ UNCHANGED << clock, quiet, rxq, stale, devQ, baud, seq, cmd, fn, rd, res, sent,
                    steps, staleRead, got, timedOut, plan, wire, log, faults, script >>

\* for pp, commands in pp_impact_map.items(): send STRSTNVM (lines 89-92)
P_Param ==
    /\ script = "ATPPS" /\ pc = "param"
    /\ send(<<"STRSTNVM">>)
    /\ pc' = "set"
    /\ UNCHANGED << clock, quiet, portOpen, portBaud, rxq, stale, devQ, num, baud, seq,
                    cmd, fn, rd, steps, staleRead, got, timedOut, glob, plan, wire, log,
                    faults, script >>

\* send ATPP <pp> SV 01 (line 94)
P_SetValue ==
    /\ script = "ATPPS" /\ pc = "set"
    /\ send(Atpp(pp_impact_map[num].pp, "SV 01"))
    /\ pc' = "on"
    /\ UNCHANGED << clock, quiet, portOpen, portBaud, rxq, stale, devQ, num, baud, seq,
                    cmd, fn, rd, steps, staleRead, got, timedOut, glob, plan, wire, log,
                    faults, script >>

\* send ATPP <pp> ON; the first loop over commands begins (lines 95-98)
P_On ==
    /\ script = "ATPPS" /\ pc = "on"
    /\ send(Atpp(pp_impact_map[num].pp, "ON"))
    /\ seq' = CommandsOf(num)
    /\ pc' = "on_cmds"
    /\ UNCHANGED << clock, quiet, portOpen, portBaud, rxq, stale, devQ, num, baud,
                    cmd, fn, rd, steps, staleRead, got, timedOut, glob, plan, wire, log,
                    faults, script >>

\* One pass of either loop: total += 1; if send(...): passed += 1
\* (lines 98-101, 107-110)
P_Command ==
    /\ script = "ATPPS" /\ pc \in {"on_cmds", "off_cmds"}
    /\ seq # <<>>
    /\ send(<<Head(seq)>>)
    /\ seq' = Tail(seq)
    /\ glob' = [glob EXCEPT !.total = @ + 1,
                            !.passed = IF res'.returned # None THEN @ + 1 ELSE @]
    /\ UNCHANGED << clock, quiet, portOpen, portBaud, rxq, stale, devQ, num, baud,
                    cmd, fn, rd, steps, staleRead, got, timedOut, plan, wire, log,
                    faults, script, pc >>

\* send ATPP <pp> OFF; the second loop over commands begins (lines 104-107)
P_Off ==
    /\ script = "ATPPS" /\ pc = "on_cmds"
    /\ seq = <<>>
    /\ send(Atpp(pp_impact_map[num].pp, "OFF"))
    /\ seq' = CommandsOf(num)
    /\ pc' = "off_cmds"
    /\ UNCHANGED << clock, quiet, portOpen, portBaud, rxq, stale, devQ, num, baud,
                    cmd, fn, rd, steps, staleRead, got, timedOut, glob, plan, wire, log,
                    faults, script >>

\* The second loop is over: the next parameter (lines 89, 112)
P_NextParam ==
    /\ script = "ATPPS" /\ pc = "off_cmds"
    /\ seq = <<>>
    /\ num < Len(pp_impact_map)
    /\ num' = num + 1
    /\ pc' = "param"
    /\ UNCHANGED << clock, quiet, portOpen, portBaud, rxq, stale, devQ, baud, seq,
                    cmd, fn, rd, res, sent, steps, staleRead, got, timedOut, glob, plan,
                    wire, log, faults, script >>

\* After the last parameter: send ATPPS, connection.close() (lines 114-119)
P_Summary ==
    /\ script = "ATPPS" /\ pc = "off_cmds"
    /\ seq = <<>>
    /\ num = Len(pp_impact_map)
    /\ send(<<"ATPPS">>)
    /\ portOpen' = FALSE
    /\ pc' = "done"
    /\ UNCHANGED << clock, quiet, portBaud, rxq, stale, devQ, num, baud, seq,
                    cmd, fn, rd, steps, staleRead, got, timedOut, glob, plan, wire, log,
                    faults, script >>

InitATPPS ==
    /\ script = "ATPPS"
    /\ pc = "open"
    /\ clock = 0
    /\ quiet = 0
    /\ portOpen = FALSE
    /\ portBaud = ATPPS_BAUD
    /\ rxq = <<>>
    /\ stale = 0
    /\ devQ = <<>>
    /\ num = 0
    /\ baud = ATPPS_BAUD
    /\ seq = <<>>
    /\ cmd = NoRecord
    /\ fn = NoRecord
    /\ rd = NoRecord
    /\ res = NoRecord
    /\ sent = <<>>
    /\ steps = <<>>
    /\ staleRead = 0
    /\ got = <<>>
    /\ timedOut = {}
    /\ glob = NoRecord
    /\ plan = <<>>
    /\ wire = <<>>
    /\ log = <<>>
    /\ faults = 0

NextATPPS ==
    \/ P_Open \/ P_Param \/ P_SetValue \/ P_On \/ P_Command \/ P_Off
    \/ P_NextParam \/ P_Summary

SpecATPPS == InitATPPS /\ [][NextATPPS]_vars

\* ---------------------------------------------------------------- C27
\* The transmissions the rule prescribes for the parameters from the i-th on.
RECURSIVE PrescribedFrom(_)
PrescribedFrom(i) ==
    IF i > Len(pp_impact_map) THEN << <<"ATPPS">> >>
    ELSE LET p == pp_impact_map[i]
             related == [k \in 1..Len(p.commands) |-> <<p.commands[k]>>]
         IN  << <<"STRSTNVM">>, <<"ATPP", p.pp, "SV 01">>, <<"ATPP", p.pp, "ON">> >>
             \o related
             \o << <<"ATPP", p.pp, "OFF">> >>
             \o related
             \o PrescribedFrom(i + 1)

RECURSIVE RelatedCount(_)
RelatedCount(i) ==
    IF i > Len(pp_impact_map) THEN 0
    ELSE Len(pp_impact_map[i].commands) + RelatedCount(i + 1)

\* C27: dual_pp_focused_test transmits, for each programmable parameter in
\* order, STRSTNVM, ATPP <pp> SV 01, ATPP <pp> ON, each related command
\* once, ATPP <pp> OFF and each related command once again, and a single
\* ATPPS after the last parameter; the total counter ends at twice the number
\* of related commands.
C27_PrescribedOrder ==
    script = "ATPPS" =>
      /\ Len(sent) <= Len(PrescribedFrom(1))
      /\ sent = SubSeq(PrescribedFrom(1), 1, Len(sent))
      /\ pc = "done" =>
            /\ sent = PrescribedFrom(1)
            /\ glob.total = 2 * RelatedCount(1)
            /\ Cardinality({ i \in 1..Len(sent) : sent[i] = <<"ATPPS">> }) = 1

\* The run has ended after 85 transmissions with total = 56.
C27_Witness ==
    /\ script = "ATPPS" /\ pc = "done"
    /\ Len(sent) = 85 /\ sent[85] = <<"ATPPS">>
    /\ sent[3] = <<"ATPP", "01", "ON">> /\ sent[11] = <<"ATPP", "01", "OFF">>
    /\ sent[18] = <<"ATD 0">> /\ sent[19] = <<"STRSTNVM">>
    /\ glob.total = 56 /\ glob.passed = 0

\* ------------------------------------------- the sessions that reopen the port
\* STSBR_STBRT.py and STBR_delay_1ms.py over their SEQUENCE and over
\* shorter ones: a speed change first, a speed change last, two in a row.
\* STSBR_STBRT.py runs its SEQUENCE with STBRT 1 for STBRT 15000: the read
\* after the reopen then returns within MaxTime ticks.
LoopScripts == { "STSBR_STBRT", "STBR_delay_1ms" }

LoopPlans(s) ==
    IF s = "STBR_delay_1ms"
    THEN { SEQUENCE_delay_1ms,
           << Cmd(T_STBR_115200, 0), Cmd(T_STI, BASE_DELAY) >>,
           << Cmd(T_STI, BASE_DELAY), Cmd(T_STBR_115200, 0) >> }
    ELSE { << Cmd(T_STRSTNVM, STRSTNVM_DELAY), Cmd(T_STBRT_1, BASE_DELAY),
              Cmd(T_STSBR_115200, 0), Cmd(T_STI, BASE_DELAY),
              Cmd(T_STRSTNVM, BASE_DELAY), Cmd(T_STI, BASE_DELAY) >>,
           << Cmd(T_STSBR_115200, 0), Cmd(T_STI, BASE_DELAY) >>,
           << Cmd(T_STSBR_115200, 0), Cmd(T_STSBR_9600, 0) >> }

InitLoops ==
    /\ script \in LoopScripts
    /\ plan \in LoopPlans(script)
    /\ pc = "open"
    /\ clock = 0
    /\ quiet = 0
    /\ portOpen = FALSE
    /\ portBaud = STARTING_BAUD
    /\ rxq = <<>>
    /\ stale = 0
    /\ devQ = <<>>
    /\ num = 0
    /\ baud = STARTING_BAUD
    /\ seq = <<>>
    /\ cmd = NoRecord
    /\ fn = NoRecord
    /\ rd = NoRecord
    /\ res = NoRecord
    /\ sent = <<>>
    /\ steps = <<>>
    /\ staleRead = 0
    /\ got = <<>>
    /\ timedOut = {}
    /\ glob = [STARTING_BAUD |-> STARTING_BAUD, TIMEOUT |-> TimeoutTicks,
               t_ok_old |-> None]
    /\ wire = <<>>
    /\ log = <<>>
    /\ faults = 0

\* The steps of the host program.
HostLoops == Next_delay_1ms \/ Next_STSBR_STBRT

NextLoops ==
    \/ DeviceEmit
    \/ Next_delay_1ms
    \/ Next_STSBR_STBRT

\* The host program keeps running; the device need not send.
SpecLoops == InitLoops /\ [][NextLoops]_vars /\ WF_vars(HostLoops)

\* ---------------------------------------------------------------- C28
\* The read after a reopen at the new speed has returned.
HandshakeRead == pc \in {"done_open_read", "done_hs_banner"}

\* C28: the outer loop of the scripts that reopen the port terminates for
\* every finite SEQUENCE and every device behaviour in which each read
\* returns: each pass transmits at least one further command or is a failed
\* handshake at the new speed that restores the previous speed, and two
\* fallback passes never occur in a row.
C28_LoopTerminates ==
    /\ <>(pc \in {"done", "failed"})
    /\ [](pc = "open" => num < Len(plan))
    /\ [][/\ (HandshakeRead /\ pc' = "open") =>
                /\ baud' = glob'.STARTING_BAUD /\ portBaud # baud'
                /\ num' = num
          /\ (pc = "open" /\ pc' # pc /\ baud = glob.STARTING_BAUD) =>
                /\ pc' = "next" /\ seq' # <<>>
          /\ (pc \in {"done_open_read", "done_hs_prompt"} /\ pc' = "next") =>
                seq' # <<>>
          /\ (pc = "next" /\ pc' # pc /\ seq # <<>>) => pc' = "tx"
          /\ (pc = "tx" /\ pc' # pc) => sent' = Append(sent, Len(sent))]_vars

\* STSBR_STBRT.py has ended after a fallback pass: the prompt did not
\* arrive at 115200, and STI was sent at 9600.
C28_Witness ==
    /\ script = "STSBR_STBRT" /\ pc = "done"
    /\ Len(plan) = 2 /\ Len(sent) = 2
    /\ 0 \in timedOut
    /\ baud = STARTING_BAUD /\ portBaud = STARTING_BAUD

\* ---------------------------------------------------------------- C29
\* One of the two STSBR timing readers is running; the command was sent at
\* time 0.
StsbrTimedRead == script = "readers" /\ pc \in {"switch", "t1_t2"}

\* C29: in the STSBR timing readers prompt_time is set only if the OK
\* timestamp is set (and in read_stsbr_with_baud_switch only if cr1_time is
\* set), the timestamps that are set satisfy t_tx <= ok_time <= cr1_time <=
\* prompt_time, and the reported T1 and T2 are never negative.
C29_StampsInOrder ==
    StsbrTimedRead =>
      /\ rd.prompt_time # None => rd.ok_time # None
      /\ (pc = "switch" /\ rd.prompt_time # None) => rd.cr1_time # None
      /\ rd.ok_time # None => 0 <= rd.ok_time
      /\ (pc = "switch" /\ rd.cr1_time # None) => rd.ok_time <= rd.cr1_time
      /\ (pc = "switch" /\ rd.prompt_time # None) => rd.cr1_time <= rd.prompt_time
      /\ rd.prompt_time # None => rd.prompt_time - rd.ok_time >= 0

\* read_stsbr_with_baud_switch has stamped OK, the CR after it and the
\* prompt in three reads, in this order.
C29_Witness ==
    /\ StsbrTimedRead /\ pc = "switch"
    /\ rd.ok_time # None /\ rd.cr1_time # None /\ rd.prompt_time # None
    /\ 0 < rd.ok_time /\ rd.ok_time < rd.cr1_time /\ rd.cr1_time < rd.prompt_time

\* ---------------------------------------------------------------- C30
\* C30: after every command main's baud variable equals the actual speed of
\* the host port, including after an STSBR handshake in which the CR after OK
\* was not seen and the port was not switched.
C30_BaudIsPortSpeed ==
    (script \in {"STSBR_115200", "STSBR_ATI_CR"} /\ pc = "next" /\ portOpen) =>
        baud = portBaud

\* send_stsbr_and_switch_baud of STSBR_ATI_CR.py has returned: the port
\* and main's baud are both at 115200.
C30_Witness ==
    /\ script = "STSBR_ATI_CR" /\ pc = "next" /\ portOpen
    /\ HandshakeLogged
    /\ baud = 115200 /\ portBaud = 115200

\* ---------------------------------------------------------------- C31
\* read_stsbr_with_baud_switch is about to return after the device sent
\* OK, CR, CR and '>': the device has nothing left to send, the last byte
\* reached the port before the deadline, and the old-speed bytes begin
\* with OK and the CR after it. Of the answers of RespStsbr only
\* OK<CR><CR>> begins with OK<CR>.
StsbrAnsweredInTime ==
    /\ script = "STSBR_115200" /\ pc = "return"
    /\ devQ = <<>>
    /\ quiet < QuietCap /\ clock - quiet < rd.deadline
    /\ IsPrefix(<<"O", "K", CR>>, rd.buf_old)

\* C31: in read_stsbr_with_baud_switch, when the device sends OK, CR, CR
\* and '>' and all of it reaches the port before the deadline, the host
\* records prompt_time, however the device's bursts interleave with the
\* host's polls, its speed switch, its settle pause and its flush.
C31_PromptRecorded == StsbrAnsweredInTime => rd.prompt_time # None

\* The interleaving the function is written for: OK and the first CR are
\* read at the old speed, the rest arrives after the flush and the prompt
\* is recorded.
C31_Witness ==
    /\ script = "STSBR_115200" /\ pc = "return"
    /\ devQ = <<>>
    /\ rd.buf_old = <<"O", "K", CR>> /\ rd.buf_new = <<CR, GT>>
    /\ rd.prompt_time # None /\ rd.prompt_time < rd.deadline
    /\ steps = <<"OLD_OK_CR", "SWITCH_NEW", "NEW_PROMPT">>

\* The whole answer reached the port in time and the second CR and '>'
\* were dropped by the flush after the speed switch: no prompt_time.
C31_LostInFlush ==
    /\ script = "STSBR_115200" /\ pc = "return"
    /\ devQ = <<>>
    /\ quiet < QuietCap /\ clock - quiet < rd.deadline
    /\ rd.buf_old = <<"O", "K", CR>> /\ rd.buf_new = <<>>
    /\ rd.prompt_time = None

\* The whole answer reached the port in time and the second CR and '>'
\* were read by the old-speed loop together with the first CR: no
\* prompt_time.
C31_ReadAtOldSpeed ==
    /\ script = "STSBR_115200" /\ pc = "return"
    /\ devQ = <<>>
    /\ quiet < QuietCap /\ clock - quiet < rd.deadline
    /\ rd.buf_old = <<"O", "K", CR, CR, GT>> /\ rd.buf_new = <<>>
    /\ rd.prompt_time = None

\* ------------------------------------- STBR_delay_1ms.py, two speed changes
T_STBR_9600 == <<"S", "T", "B", "R", SP, "9", "6", "0", "0">>

\* SEQUENCEs with a second STBR command after the first handshake.
RepeatPlans ==
    { << Cmd(T_STBR_115200, 0), Cmd(T_STBR_9600, 0), Cmd(T_STI, BASE_DELAY) >>,
      << Cmd(T_STBR_115200, 0), Cmd(T_STI, BASE_DELAY), Cmd(T_STBR_9600, 0),
         Cmd(T_STI, BASE_DELAY) >> }

InitRepeat ==
    /\ script = "STBR_delay_1ms"
    /\ plan \in RepeatPlans
    /\ pc = "open"
    /\ clock = 0
    /\ quiet = 0
    /\ portOpen = FALSE
    /\ portBaud = STARTING_BAUD
    /\ rxq = <<>>
    /\ stale = 0
    /\ devQ = <<>>
    /\ num = 0
    /\ baud = STARTING_BAUD
    /\ seq = <<>>
    /\ cmd = NoRecord
    /\ fn = NoRecord
    /\ rd = NoRecord
    /\ res = NoRecord
    /\ sent = <<>>
    /\ steps = <<>>
    /\ staleRead = 0
    /\ got = <<>>
    /\ timedOut = {}
    /\ glob = [STARTING_BAUD |-> STARTING_BAUD, TIMEOUT |-> TimeoutTicks,
               t_ok_old |-> None]
    /\ wire = <<>>
    /\ log = <<>>
    /\ faults = 0

NextRepeat ==
    \/ DeviceEmit
    \/ Next_delay_1ms

SpecRepeat == InitRepeat /\ [][NextRepeat]_vars

\* ---------------------------------------------------------------- C32
\* main() is about to compute T1 and T2 of the handshake that command
\* num - 1 started; res is still what send_and_log logged for that command.
HandshakeEnds == script = "STBR_delay_1ms" /\ pc = "done_hs_prompt" /\ pc' # pc

\* C32: in STBR_delay_1ms the T1 reported for a handshake is computed from
\* the OK timestamp of the STBR command that started the handshake: T1 is
\* reported only if the response logged for that command held OK<CR>, and
\* a timestamp left by an earlier STBR command is never used.
C32_T1FromOwnOk ==
    [][(HandshakeEnds /\ res'.T1 # None) =>
          /\ res.num = num - 1
          /\ Contains(res.data, OK_CR)]_vars

\* The handshake of the first STBR command of the session reported T1: the
\* OK timestamp is the one of that command.
C32_Witness ==
    /\ script = "STBR_delay_1ms" /\ pc = "next"
    /\ "handshake" \in DOMAIN res /\ res.handshake /\ res.num = 0
    /\ res.T1 # None /\ res.ok_t # None

\* The second STBR command was answered without OK<CR>, the banner was read
\* after the reopen, and t_ok_old still holds the time of the first STBR.
C32_StaleOkPending ==
    /\ script = "STBR_delay_1ms" /\ pc = "done_hs_prompt"
    /\ res.num = num - 1 /\ res.num > 0
    /\ ~Contains(res.data, OK_CR)
    /\ glob.t_ok_old # None /\ fn.t_banner # None

\* -------------------------------------------------------- Extras/STGPOR.py
COMMAND == <<"S", "T", "G", "P", "O", "R">>
START == 0
END == 45
COMMAND_DELAY == 1

\* SEQUENCE of STGPOR.py
SEQUENCE_STGPOR == <<>>

\* One call of send_and_log in main(): the text, the delay and the number
\* passed, None where main() passes its variable num.
Call(text, delay, n) == [cmd |-> text, delay |-> delay, num |-> n]

\* main(): the calls of send_and_log in order (lines 91-99). The for loop
\* over range(START, END + 1) binds num to the range value before each call.
CallsOf_STGPOR ==
    << Call(T_STRSTNVM, STRSTNVM_DELAY, 0) >>
    \o [k \in 1..(END - START + 1) |->
          Call(COMMAND \o <<SP>> \o DecimalText(START + k - 1), COMMAND_DELAY,
               START + k - 1)]
    \o [i \in 1..Len(SEQUENCE_STGPOR) |->
          Call(SEQUENCE_STGPOR[i].cmd, SEQUENCE_STGPOR[i].delay, None)]
    \o << Call(T_STRSTNVM, STRSTNVM_DELAY, None) >>

\* main(): with Serial(PORT, baudrate=BAUD, timeout=0) as port; sleep(3)
G_Open ==
    /\ script = "STGPOR" /\ pc = "open"
    /\ portOpen' = TRUE /\ portBaud' = baud
    /\ rxq' = <<>> /\ stale' = 0 /\ got' = <<>>
    /\ Sleep(Ticks(3))
    /\ seq' = plan
    /\ pc' = "next"
    /\ log' = HeaderOnly(log)
    /\ UNCHANGED << script, devQ, num, baud, cmd, fn, rd, res, sent, steps,
                    staleRead, timedOut, glob, plan, wire, faults >>

\* main(): the next call; send_and_log: the header, sleep(0.05) (lines 35-42)
G_Next ==
    /\ script = "STGPOR" /\ pc = "next"
    /\ IF seq = <<>>
       THEN /\ pc' = "done"
            /\ portOpen' = FALSE
            /\ log' = <<>>
            /\ UNCHANGED << seq, cmd, num, clock, quiet >>
       ELSE /\ cmd' = Head(seq)
            /\ seq' = Tail(seq)
            /\ num' = IF Head(seq).num # None THEN Head(seq).num ELSE num
            /\ clock' = 1
            /\ quiet' = Min(quiet + 1, QuietCap)
            /\ pc' = "tx"
            /\ log' = << [k |-> "header", num |-> num', visible |-> Head(seq).cmd] >>
            /\ UNCHANGED portOpen
    /\ res' = NoRecord
    /\ UNCHANGED << script, portBaud, rxq, stale, devQ, baud, fn, rd, sent, steps,
                    staleRead, got, timedOut, glob, plan, wire, faults >>

\* send_and_log: reset_input_buffer, write (lines 43-45)
G_Tx ==
    /\ script = "STGPOR" /\ pc = "tx"
    /\ Flush
    /\ sent' = Append(sent, num)
    /\ \E r \in RespPlain : devQ' = r
    /\ fn' = [t_tx |-> clock]
    /\ pc' = "delay"
    /\ wire' = AppendNewline(cmd.cmd)
    /\ log' = HeaderOnly(log)
    /\ UNCHANGED << script, clock, quiet, portOpen, portBaud, num, baud, seq, cmd, rd,
                    res, steps, staleRead, timedOut, glob, plan, faults >>

\* send_and_log: sleep(delay); buf, last_rx (lines 46-50)
G_Delay ==
    /\ script = "STGPOR" /\ pc = "delay"
    /\ Sleep(Ticks(cmd.delay))
    /\ rd' = [buf |-> <<>>, last_rx |-> clock', start |-> clock']
    /\ pc' = "idle"
    /\ log' = HeaderOnly(log)
    /\ UNCHANGED << script, portOpen, portBaud, rxq, stale, devQ, num, baud, seq, cmd,
                    fn, res, sent, steps, staleRead, got, timedOut, glob, plan, wire,
                    faults >>

\* send_and_log: one pass of the read loop (lines 51-60)
G_Idle ==
    /\ script = "STGPOR" /\ pc = "idle"
    /\ IF rxq # <<>>
       THEN /\ rd' = [rd EXCEPT !.buf = rd.buf \o rxq, !.last_rx = clock]
            /\ ReadAll
            /\ Sleep(1)
            /\ UNCHANGED pc
       ELSE IF IdleElapsed(clock, rd.last_rx, IdleGapTicks)
            THEN /\ pc' = "logged"
                 /\ NoRead /\ NoSleep
                 /\ UNCHANGED rd
            ELSE /\ Sleep(1)
                 /\ NoRead
                 /\ UNCHANGED << rd, pc >>
    /\ log' = HeaderOnly(log)
    /\ UNCHANGED << script, portOpen, portBaud, devQ, num, baud, seq, cmd, fn, res,
                    sent, steps, got, timedOut, glob, plan, wire, faults >>

\* send_and_log: the section, return num + 1; main(): num = ... (lines 61-76)
G_Logged ==
    /\ script = "STGPOR" /\ pc = "logged"
    /\ res' = [num |-> num, handshake |-> FALSE, error |-> FALSE, data |-> rd.buf,
               start |-> rd.start, T1 |-> None, T2 |-> None]
    /\ num' = num + 1
    /\ rd' = NoRecord
    /\ pc' = "next"
    /\ log' = Append(HeaderOnly(log), [k |-> "section", len |-> Len(rd.buf),
                             visible |-> visible_bytes(Bytes(rd.buf)),
                             hex |-> hex_bytes(Bytes(rd.buf))])
    /\ UNCHANGED << script, clock, quiet, portOpen, portBaud, rxq, stale, devQ, baud,
                    seq, cmd, fn, sent, steps, staleRead, got, timedOut, glob, plan,
                    wire, faults >>

Next_STGPOR ==
    \/ G_Open \/ G_Next \/ G_Tx \/ G_Delay \/ G_Idle \/ G_Logged

\* The scripts that number their section headers with the value that
\* send_and_log returns.
HeaderScripts == { "STGPOR", "STSBR_STBRT" }

InitHeaders ==
    /\ script \in HeaderScripts
    /\ plan = IF script = "STGPOR" THEN CallsOf_STGPOR ELSE SEQUENCE_STSBR_STBRT
    /\ pc = "open"
    /\ clock = 0
    /\ quiet = 0
    /\ portOpen = FALSE
    /\ portBaud = STARTING_BAUD
    /\ rxq = <<>>
    /\ stale = 0
    /\ devQ = <<>>
    /\ num = 0
    /\ baud = STARTING_BAUD
    /\ seq = <<>>
    /\ cmd = NoRecord
    /\ fn = NoRecord
    /\ rd = NoRecord
    /\ res = NoRecord
    /\ sent = <<>>
    /\ steps = <<>>
    /\ staleRead = 0
    /\ got = <<>>
    /\ timedOut = {}
    /\ glob = IF script = "STSBR_STBRT"
              THEN [STARTING_BAUD |-> STARTING_BAUD, TIMEOUT |-> TimeoutTicks,
                    t_ok_old |-> None]
              ELSE NoRecord
    /\ wire = <<>>
    /\ log = <<>>
    /\ faults = 0

NextHeaders ==
    \/ DeviceEmit
    \/ Next_STGPOR
    \/ Next_STSBR_STBRT

SpecHeaders == InitHeaders /\ [][NextHeaders]_vars

\* ---------------------------------------------------------------- C33
\* C33: within one transcript the numbers of the section headers
\* '--- [n] ... ---' are pairwise distinct and go up by one from one
\* transmitted command to the next: each command is transmitted under the
\* number of the header just written, and these numbers are consecutive.
C33_HeadersConsecutive ==
    /\ [](\A i \in 1..(Len(sent) - 1) : sent[i + 1] = sent[i] + 1)
    /\ [][(pc = "tx" /\ pc' # pc) => sent' = Append(sent, log[1].num)]_vars

\* STSBR_STBRT.py has written the headers [0] to [3] and transmitted
\* under each of them.
C33_Witness ==
    /\ script = "STSBR_STBRT" /\ pc = "delay"
    /\ sent = <<0, 1, 2, 3>>
    /\ log = << LogHeader(3, plan[4].cmd) >>

\* STGPOR.py has written '--- [0] STRSTNVM ---' and '--- [0] STGPOR 0 ---'.
C33_HeaderTwice ==
    /\ script = "STGPOR" /\ pc = "delay"
    /\ sent = <<0, 0>>
    /\ log = << [k |-> "header", num |-> 0,
                 visible |-> COMMAND \o <<SP, "0">>] >>

\* ---------------------------------------------------------------- C34
\* compare_files with the two transcripts exchanged.
Reversed == compare_files(rd.ds, rd.stn)

\* C34: compare_files is symmetric: comparing A against B reports a
\* difference exactly if comparing B against A does, with the same number
\* of differing blocks and the one-sided blocks of the two sides exchanged.
C34_Symmetric ==
    Compared =>
        /\ res.has_diff = Reversed.has_diff
        /\ Len(res.diffs) = Len(Reversed.diffs)
        /\ res.only_stn = Reversed.only_ds
        /\ res.only_ds = Reversed.only_stn

\* Two transcripts with one differing block and one block on the dsPIC side
\* only: both directions report one DIFF, and the one-sided block changes
\* sides.
C34_Witness ==
    /\ Compared
    /\ Len(rd.stn) = 1 /\ Len(rd.ds) = 2
    /\ Len(res.diffs) = 1 /\ Len(Reversed.diffs) = 1
    /\ res.only_stn = <<>> /\ Len(res.only_ds) = 1
    /\ Reversed.only_stn = res.only_ds /\ Reversed.only_ds = <<>>

\* A difference is reported in one direction and none in the other.
C34_OneWayOnly ==
    /\ Compared
    /\ res.has_diff /\ ~Reversed.has_diff
    /\ Len(rd.stn) = 2 /\ Len(rd.ds) = 1

\* ---------------------------------------------------------------- C35
\* load_blocks: the header line stored under a (command, occurrence) key
HeaderOfKey(loaded, key) ==
    loaded.headers[CHOOSE i \in 1..Len(loaded.keys) : loaded.keys[i] = key]

\* compare_files: the pairs of blocks whose contents are compared, each
\* block named by its header line: first the headers in both files (lines
\* 97-100), then the keys of the first file that were not compared by
\* header and that the second file has too (lines 111-117).
Alignment(stn, ds) ==
    LET stn_l == load_blocks(stn)
        ds_l == load_blocks(ds)
        common_by_header == { h \in Range(stn_l.headers) : h \in Range(ds_l.headers) }
        compared == { CmdOcc(stn_l, h) : h \in common_by_header }
    IN  { <<h, h>> : h \in common_by_header }
        \cup { <<HeaderOfKey(stn_l, k), HeaderOfKey(ds_l, k)>> :
                 k \in { key \in Range(stn_l.keys) :
                           key \notin compared /\ key \in Range(ds_l.keys) } }

\* C35: the alignment made by compare_files is one-to-one: each block of
\* either transcript is paired with at most one block of the other, and a
\* block matched by exact header is not compared again through the
\* (command, occurrence) fallback.
C35_OneToOne ==
    Compared =>
        \A p, q \in Alignment(rd.stn, rd.ds) :
            (p[1] = q[1] \/ p[2] = q[2]) => p = q

\* One pair made by exact header and one by (command, occurrence), no
\* block in both.
C35_Witness ==
    /\ Compared
    /\ Len(rd.stn) = 2 /\ Len(rd.ds) = 2
    /\ Alignment(rd.stn, rd.ds) =
         { << [index |-> None, text |-> "B"], [index |-> None, text |-> "B"] >>,
           << [index |-> 0, text |-> "A"], [index |-> 1, text |-> "A"] >> }

\* The dsPIC block '[1] A' is compared with the STN block of the same
\* header and again, through its key (A, 1), with the STN block '[0] A'.
C35_ComparedTwice ==
    /\ Compared
    /\ << [index |-> 1, text |-> "A"], [index |-> 1, text |-> "A"] >>
         \in Alignment(rd.stn, rd.ds)
    /\ << [index |-> 0, text |-> "A"], [index |-> 1, text |-> "A"] >>
         \in Alignment(rd.stn, rd.ds)

\* ---------------------------------------------------------------- C36
\* The scripts whose commands are all sent by flush, write, read until idle.
FlushingScripts == { "STPX", "STSBR_STBRT" }

\* The pre-send flush of a command ends: drain() of STPX.py finds nothing
\* waiting, send_and_log of STSBR_STBRT.py calls reset_input_buffer().
FlushEnds ==
    /\ script \in FlushingScripts
    /\ IF script = "STPX" THEN pc = "drain" /\ pc' = "tx"
                          ELSE pc = "tx" /\ pc' # pc

\* Between the flush of a command and its log entry.
AfterFlush ==
    /\ script \in FlushingScripts
    /\ pc \in {"delay", "quiet", "logged", "read", "done_read"}
          \cup (IF script = "STPX" THEN {"tx"} ELSE {})

\* The response of the command is logged.
ResponseLogged ==
    /\ script \in FlushingScripts
    /\ pc = (IF script = "STPX" THEN "logged" ELSE "done_read")
    /\ pc' # pc

\* C36: the response logged for a command contains only bytes the host
\* received after the command's pre-send flush: the flush leaves nothing
\* that arrived before it, from then on the bytes counted as received are
\* the arrivals at the port in order, and the response logged is made of
\* these bytes.
C36_OnlyBytesAfterFlush ==
    /\ [][FlushEnds => rxq' = <<>> /\ got' = <<>>]_vars
    /\ [][(AfterFlush /\ got' # got) =>
             /\ Len(got') > Len(got)
             /\ SubSeq(got', 1, Len(got)) = got
             /\ rxq' = rxq \o SubSeq(got', Len(got) + 1, Len(got'))
             /\ UNCHANGED << pc, rd >>]_vars
    /\ [][ResponseLogged => /\ IsPrefix(res'.data, got)
                            /\ res'.num = num]_vars

\* STSBR_STBRT.py logs an empty response for a command although a byte of
\* the previous answer reached the port during the sleep(0.05) before the
\* flush: the last arrival is one tick after the header, before the write,
\* and nothing was received after the flush.
C36_Witness ==
    /\ script = "STSBR_STBRT" /\ pc = "done_read"
    /\ num >= 1
    /\ quiet < QuietCap /\ quiet = clock - 1
    /\ got = <<>> /\ rd.buf = <<>>

====
